---- MODULE Spec2Model ----
(***************************************************************************)
(* DesignBench: the android / ios / all commands, the platform runners     *)
(* (android.Run, ios.Run) and the text parsers they feed the output of the *)
(* external tools through.                                                 *)
(*                                                                         *)
(* Text is modelled as it is in the program: a string is a sequence of     *)
(* one-character strings, an output is the sequence of the lines that      *)
(* bufio.Scanner yields for it.  A float64 is modelled by the exact        *)
(* fraction [num, den] it stands for.                                      *)
(***************************************************************************)
EXTENDS Integers, Sequences, FiniteSets, TLC

VARIABLES
    cmd,        \* the subcommand being executed: "android", "ios" or "all"
    opts,       \* the flags of the invocation (androidOptions, iosOptions, --timeout)
    pc,         \* position of the command in its code
    expired,    \* the command context's deadline has passed
    proc,       \* the external process currently running, or NoProc
    spawned,    \* every external process started so far, in order
    lastRun,    \* the last external process that ended: how it ended, the error and output returned
    loc,        \* the local variables of the Run in progress
    aRet,       \* what android.Run returned: [metrics, err], or NotReturned
    iRet,       \* what ios.Run returned: [metrics, err], or NotReturned
    printed,    \* the Result whose summary was printed, or Nil
    saved,      \* the Result written as the JSON report, or Nil
    cmdErr,     \* the error RunE returned (Nil: none)
    input,      \* parser loops: the lines still to scan
    scanned,    \* parser loops: the lines scanned so far
    result,     \* parser loops: the value under construction / returned
    done        \* parser loops: the function has returned

vars == <<cmd, opts, pc, expired, proc, spawned, lastRun, loc, aRet, iRet,
          printed, saved, cmdErr, input, scanned, result, done>>

cmdVars == <<cmd, opts, pc, expired, proc, spawned, lastRun, loc, aRet, iRet,
             printed, saved, cmdErr>>

parseVars == <<input, scanned, result, done>>

-----------------------------------------------------------------------------
(* Strings: sequences of one-character strings.                              *)

LowerChars == <<"a","b","c","d","e","f","g","h","i","j","k","l","m",
                "n","o","p","q","r","s","t","u","v","w","x","y","z">>
UpperChars == <<"A","B","C","D","E","F","G","H","I","J","K","L","M",
                "N","O","P","Q","R","S","T","U","V","W","X","Y","Z">>
DigitChars == <<"0","1","2","3","4","5","6","7","8","9">>

Range(f) == {f[i] : i \in DOMAIN f}

IsDigit(c) == c \in Range(DigitChars)

DigitVal(c) == (CHOOSE i \in DOMAIN DigitChars : DigitChars[i] = c) - 1

\* unicode.IsSpace, on the characters the outputs hold
IsSpace(c) == c \in {" ", "\t", "\r", "\n"}

ToUpperChar(c) ==
    IF c \in Range(LowerChars)
    THEN UpperChars[CHOOSE i \in DOMAIN LowerChars : LowerChars[i] = c]
    ELSE c

ToUpper(s) == [i \in DOMAIN s |-> ToUpperChar(s[i])]

Drop(s, n) == SubSeq(s, n + 1, Len(s))

Take(s, n) == SubSeq(s, 1, n)

RECURSIVE TrimLeft(_)
TrimLeft(s) ==
    IF s # <<>> /\ IsSpace(Head(s)) THEN TrimLeft(Tail(s)) ELSE s

RECURSIVE TrimRight(_)
TrimRight(s) ==
    IF s # <<>> /\ IsSpace(s[Len(s)]) THEN TrimRight(Take(s, Len(s) - 1)) ELSE s

TrimSpace(s) == TrimRight(TrimLeft(s))

HasPrefix(s, p) == Len(s) >= Len(p) /\ Take(s, Len(p)) = p

HasSuffix(s, p) == Len(s) >= Len(p) /\ Drop(s, Len(s) - Len(p)) = p

TrimSuffix(s, p) == IF HasSuffix(s, p) THEN Take(s, Len(s) - Len(p)) ELSE s

\* strings.Index for a one-character separator: the 1-based position of its
\* first occurrence, 0 when there is none (Go: -1)
IndexChar(s, c) ==
    IF \E i \in DOMAIN s : s[i] = c
    THEN CHOOSE i \in DOMAIN s : s[i] = c /\ \A j \in 1..(i - 1) : s[j] # c
    ELSE 0

Contains(s, sub) ==
    \E i \in 0..(Len(s) - Len(sub)) : SubSeq(s, i + 1, i + Len(sub)) = sub

\* strings.SplitN(s, sep, 2): one part when sep does not occur, else two
SplitN2(s, c) ==
    LET i == IndexChar(s, c)
    IN  IF i = 0 THEN <<s>> ELSE <<Take(s, i - 1), Drop(s, i)>>

\* strings.Fields: the maximal runs of non-space characters
RECURSIVE Fields(_)
Fields(s) ==
    LET t == TrimLeft(s)
    IN  IF t = <<>> THEN <<>>
        ELSE LET n == IF \E i \in DOMAIN t : IsSpace(t[i])
                      THEN (CHOOSE i \in DOMAIN t :
                               IsSpace(t[i]) /\ \A j \in 1..(i - 1) : ~IsSpace(t[j])) - 1
                      ELSE Len(t)
             IN  <<Take(t, n)>> \o Fields(Drop(t, n))

-----------------------------------------------------------------------------
(* float64 values: exact fractions in lowest terms.                          *)

RECURSIVE GCD(_, _)
GCD(a, b) == IF b = 0 THEN a ELSE GCD(b, a % b)

Abs(n) == IF n < 0 THEN -n ELSE n

Frac(n, d) ==
    LET g == GCD(Abs(n), d)
    IN  IF n = 0 THEN [num |-> 0, den |-> 1] ELSE [num |-> n \div g, den |-> d \div g]

Num(n) == Frac(n, 1)

FDiv(x, k) == Frac(x.num, x.den * k)

FMul(x, k) == Frac(x.num * k, x.den)

FAdd(x, y) == Frac(x.num * y.den + y.num * x.den, x.den * y.den)

FPositive(x) == x.num > 0

RECURSIVE DigitsValue(_)
DigitsValue(s) ==
    IF s = <<>> THEN 0 ELSE DigitsValue(Take(s, Len(s) - 1)) * 10 + DigitVal(s[Len(s)])

RECURSIVE Pow10(_)
Pow10(n) == IF n = 0 THEN 1 ELSE 10 * Pow10(n - 1)

AllDigits(s) == \A i \in DOMAIN s : IsDigit(s[i])

\* strconv.ParseFloat(s, 64) on decimal numerals: an optional sign, digits
\* with at most one point, at least one digit.  Anything else over the
\* characters of the outputs is a syntax error.
ParseFloatDigits(sign, ip, fp) ==
    IF AllDigits(ip) /\ AllDigits(fp) /\ Len(ip) + Len(fp) > 0
    THEN [ok |-> TRUE,
          v  |-> Frac(sign * (DigitsValue(ip) * Pow10(Len(fp)) + DigitsValue(fp)),
                      Pow10(Len(fp)))]
    ELSE [ok |-> FALSE, v |-> Num(0)]

ParseFloatBody(sign, parts) ==
    ParseFloatDigits(sign, parts[1], IF Len(parts) = 2 THEN parts[2] ELSE <<>>)

ParseFloat(s) ==
    IF s # <<>> /\ Head(s) \in {"+", "-"}
    THEN ParseFloatBody(IF Head(s) = "-" THEN -1 ELSE 1, SplitN2(Tail(s), "."))
    ELSE ParseFloatBody(1, SplitN2(s, "."))

\* strconv.Atoi succeeds: an optional sign followed by digits only
AtoiOK(s) ==
    LET body == IF s # <<>> /\ Head(s) \in {"+", "-"} THEN Tail(s) ELSE s
    IN  body # <<>> /\ AllDigits(body)

-----------------------------------------------------------------------------
(* Values shared by the records of pkg/report.                               *)

\* a nil error
NoErr == [kind |-> "nil", msg |-> ""]

Err(kind, msg) == [kind |-> kind, msg |-> msg]

\* a nil *report.DeviceMetadata
NilDevice ==
    [nil |-> TRUE, ID |-> "", Model |-> <<>>, OSVersion |-> <<>>,
     Platform |-> "", Resolution |-> <<>>]

\* &report.AndroidMetrics{}: every field at its zero value
ZeroAndroidMetrics ==
    [nil |-> FALSE, Component |-> "", Activity |-> "", Package |-> <<>>,
     FirstFrameMs |-> Num(0), TotalTimeMs |-> Num(0), WaitTimeMs |-> Num(0),
     MemoryMB |-> Num(0), CPUPercent |-> Num(0), CPUTimeMs |-> Num(0),
     LaunchState |-> <<>>, Device |-> NilDevice, Command |-> ""]

\* a nil *report.AndroidMetrics
NilAndroidMetrics == [ZeroAndroidMetrics EXCEPT !.nil = TRUE]

-----------------------------------------------------------------------------
(* The words of the tools' outputs.                                          *)

W_ThisTime == <<"T","h","i","s","T","i","m","e">>
W_TotalTime == <<"T","o","t","a","l","T","i","m","e">>
W_WaitTime == <<"W","a","i","t","T","i","m","e">>
W_LaunchState == <<"L","a","u","n","c","h","S","t","a","t","e">>
W_COLD == <<"C","O","L","D">>
W_TOTAL == <<"T","O","T","A","L">>
W_TOTAL_PSS == <<"T","O","T","A","L"," ","P","S","S">>
W_kB == <<"k","B">>
W_KB == <<"K","B">>
W_kb == <<"k","b">>

-----------------------------------------------------------------------------
(* android: parseLaunchOutput                                                *)

\* (A variant of the loop body that stores the zero ParseFloat returns with
\* its error.)
LaunchLineUnchecked(res, raw) ==
    LET line  == TrimSpace(raw)
        parts == SplitN2(line, ":")
        key   == TrimSpace(parts[1])
        value == TrimSpace(parts[2])
    IN  IF line = <<>> \/ Len(parts) # 2 THEN res
        ELSE CASE key = W_ThisTime    -> [res EXCEPT !.FirstFrameMs = ParseFloat(value).v]
               [] key = W_TotalTime   -> [res EXCEPT !.TotalTimeMs = ParseFloat(value).v]
               [] key = W_WaitTime    -> [res EXCEPT !.WaitTimeMs = ParseFloat(value).v]
               [] key = W_LaunchState -> [res EXCEPT !.LaunchState = value]
               [] OTHER               -> res

\* (A variant with the targets of ThisTime and TotalTime exchanged.)
LaunchLineSwapped(res, raw) ==
    LET line  == TrimSpace(raw)
        parts == SplitN2(line, ":")
        key   == TrimSpace(parts[1])
        value == TrimSpace(parts[2])
        f     == ParseFloat(value)
    IN  IF line = <<>> \/ Len(parts) # 2 THEN res
        ELSE CASE key = W_ThisTime    -> IF f.ok THEN [res EXCEPT !.TotalTimeMs = f.v] ELSE res
               [] key = W_TotalTime   -> IF f.ok THEN [res EXCEPT !.FirstFrameMs = f.v] ELSE res
               [] key = W_WaitTime    -> IF f.ok THEN [res EXCEPT !.WaitTimeMs = f.v] ELSE res
               [] key = W_LaunchState -> [res EXCEPT !.LaunchState = value]
               [] OTHER               -> res

\* The body of the scanner loop of parseLaunchOutput: the result after one
\* more line.
LaunchLine(res, raw) ==
    LET line  == TrimSpace(raw)
        parts == SplitN2(line, ":")
        key   == TrimSpace(parts[1])
        value == TrimSpace(parts[2])
        f     == ParseFloat(value)
    IN  IF line = <<>> \/ Len(parts) # 2 THEN res
        ELSE CASE key = W_ThisTime    -> IF f.ok THEN [res EXCEPT !.FirstFrameMs = f.v] ELSE res
               [] key = W_TotalTime   -> IF f.ok THEN [res EXCEPT !.TotalTimeMs = f.v] ELSE res
               [] key = W_WaitTime    -> IF f.ok THEN [res EXCEPT !.WaitTimeMs = f.v] ELSE res
               [] key = W_LaunchState -> [res EXCEPT !.LaunchState = value]
               [] OTHER               -> res

RECURSIVE LaunchFold(_, _)
LaunchFold(res, lines) ==
    IF lines = <<>> THEN res ELSE LaunchFold(LaunchLine(res, Head(lines)), Tail(lines))

parseLaunchOutput(output) == LaunchFold(ZeroAndroidMetrics, output)

-----------------------------------------------------------------------------
(* android: parseMeminfoForMB                                                *)

NotFoundMB == [found |-> FALSE, v |-> Num(0)]

\* for _, field := range fields: the first field that parses, over 1024
RECURSIVE FirstFieldMB(_)
FirstFieldMB(fields) ==
    IF fields = <<>> THEN NotFoundMB
    ELSE LET clean == TrimSuffix(TrimSuffix(TrimSuffix(Head(fields), W_kB), W_KB), W_kb)
             f     == ParseFloat(clean)
         IN  IF f.ok THEN [found |-> TRUE, v |-> FDiv(f.v, 1024)]
             ELSE FirstFieldMB(Tail(fields))

\* (A variant that reports the kB figure over 1000.)
RECURSIVE FirstFieldMBDecimal(_)
FirstFieldMBDecimal(fields) ==
    IF fields = <<>> THEN NotFoundMB
    ELSE LET clean == TrimSuffix(TrimSuffix(TrimSuffix(Head(fields), W_kB), W_KB), W_kb)
             f     == ParseFloat(clean)
         IN  IF f.ok THEN [found |-> TRUE, v |-> FDiv(f.v, 1000)]
             ELSE FirstFieldMBDecimal(Tail(fields))

\* (A variant of the loop body that reads the kB figure as decimal MB.)
MeminfoLineDecimal(raw) ==
    LET line  == TrimSpace(raw)
        upper == ToUpper(line)
        idx   == IndexChar(line, ":")
        rest  == IF idx > 0 THEN Drop(line, idx) ELSE line
    IN  IF line = <<>> THEN NotFoundMB
        ELSE IF HasPrefix(upper, W_TOTAL_PSS) \/ HasPrefix(upper, W_TOTAL)
             THEN FirstFieldMBDecimal(Fields(rest))
             ELSE NotFoundMB

\* The body of the scanner loop of parseMeminfoForMB: whether this line makes
\* the function return, and the value it returns then.
MeminfoLine(raw) ==
    LET line  == TrimSpace(raw)
        upper == ToUpper(line)
        idx   == IndexChar(line, ":")
        rest  == IF idx > 0 THEN Drop(line, idx) ELSE line
    IN  IF line = <<>> THEN NotFoundMB
        ELSE IF HasPrefix(upper, W_TOTAL_PSS) \/ HasPrefix(upper, W_TOTAL)
             THEN FirstFieldMB(Fields(rest))
             ELSE NotFoundMB

ErrNoTotal == Err("errors.New", "unable to locate TOTAL memory usage in dumpsys output")

RECURSIVE parseMeminfoForMB(_)
parseMeminfoForMB(output) ==
    IF output = <<>> THEN [v |-> Num(0), err |-> ErrNoTotal]
    ELSE LET r == MeminfoLine(Head(output))
         IN  IF r.found THEN [v |-> r.v, err |-> NoErr]
             ELSE parseMeminfoForMB(Tail(output))

-----------------------------------------------------------------------------
(* android: the pid and CPU parsers                                          *)

\* the bytes of an output whose lines are `lines`
RECURSIVE Text(_)
Text(lines) ==
    IF lines = <<>> THEN <<>> ELSE Head(lines) \o <<"\n">> \o Text(Tail(lines))

ErrNotFound(msg) == Err("errors.New", msg)

\* resolveAndroidPID, the scan of the `ps` output
RECURSIVE ScanPSForPID(_, _)
ScanPSForPID(lines, packageName) ==
    IF lines = <<>> THEN [pid |-> <<>>, err |-> ErrNotFound("process not found")]
    ELSE LET line   == Head(lines)
             fields == Fields(line)
         IN  IF ~Contains(line, packageName) \/ Len(fields) < 2 \/ ~AtoiOK(fields[1])
             THEN ScanPSForPID(Tail(lines), packageName)
             ELSE [pid |-> fields[1], err |-> NoErr]

\* parseAndroidTopCPU, the inner loop over fields[1:]
RECURSIVE FirstPercentField(_)
FirstPercentField(fields) ==
    IF fields = <<>> THEN [found |-> FALSE, v |-> Num(0)]
    ELSE LET f == ParseFloat(TrimSuffix(Head(fields), <<"%">>))
         IN  IF Contains(Head(fields), <<"%">>) /\ f.ok
             THEN [found |-> TRUE, v |-> f.v]
             ELSE FirstPercentField(Tail(fields))

RECURSIVE parseAndroidTopCPU(_, _)
parseAndroidTopCPU(output, pid) ==
    IF output = <<>> THEN [v |-> Num(0), err |-> ErrNotFound("pid not present in top output")]
    ELSE LET line   == TrimSpace(Head(output))
             fields == Fields(line)
             r      == FirstPercentField(Tail(fields))
         IN  IF line = <<>> \/ fields[1] # pid \/ ~r.found
             THEN parseAndroidTopCPU(Tail(output), pid)
             ELSE [v |-> r.v, err |-> NoErr]

RECURSIVE parseDumpsysCPU(_, _)
parseDumpsysCPU(output, packageName) ==
    IF output = <<>>
    THEN [v |-> Num(0), err |-> ErrNotFound("package not present in cpuinfo output")]
    ELSE LET line   == TrimSpace(Head(output))
             fields == Fields(line)
             f      == ParseFloat(TrimSuffix(fields[1], <<"%">>))
         IN  IF line = <<>> \/ ~Contains(line, packageName) \/ ~f.ok
             THEN parseDumpsysCPU(Tail(output), packageName)
             ELSE [v |-> f.v, err |-> NoErr]

\* (A variant that reports 0 ms for a stat content with too few fields.)
parseProcStatZero(output) ==
    LET fields == Fields(Text(output))
        utime  == ParseFloat(fields[14])
        stime  == ParseFloat(fields[15])
    IN  IF Len(fields) < 16
        THEN [v |-> Num(0), err |-> NoErr]
        ELSE IF ~utime.ok \/ ~stime.ok
        THEN [v |-> Num(0), err |-> Err("*strconv.NumError", "invalid syntax")]
        ELSE [v |-> FMul(FDiv(FAdd(utime.v, stime.v), 100), 1000), err |-> NoErr]

\* androidCPUTime, after the read of /proc/<pid>/stat succeeded
parseProcStat(output) ==
    LET fields == Fields(Text(output))
        utime  == ParseFloat(fields[14])
        stime  == ParseFloat(fields[15])
    IN  IF Len(fields) < 16
        THEN [v |-> Num(0), err |-> ErrNotFound("unexpected /proc stat format")]
        ELSE IF ~utime.ok \/ ~stime.ok
        THEN [v |-> Num(0), err |-> Err("*strconv.NumError", "invalid syntax")]
        ELSE [v |-> FMul(FDiv(FAdd(utime.v, stime.v), 100), 1000), err |-> NoErr]

-----------------------------------------------------------------------------
(* ios: the memory, pid and ps parsers                                       *)

ToLowerChar(c) ==
    IF c \in Range(UpperChars)
    THEN LowerChars[CHOOSE i \in DOMAIN UpperChars : UpperChars[i] = c]
    ELSE c

ToLower(s) == [i \in DOMAIN s |-> ToLowerChar(s[i])]

EqualFold(s, t) == ToLower(s) = ToLower(t)

\* strings.Split(s, sep) for a one-character separator
RECURSIVE Split(_, _)
Split(s, c) ==
    LET i == IndexChar(s, c)
    IN  IF i = 0 THEN <<s>> ELSE <<Take(s, i - 1)>> \o Split(Drop(s, i), c)

\* \s of the regexp syntax
IsRegexpSpace(c) == c \in {" ", "\t", "\n", "\r", "\f"}

\* the length of the longest prefix of s made of digits (\d+, greedy)
RECURSIVE DigitRunLen(_)
DigitRunLen(s) ==
    IF s # <<>> /\ IsDigit(Head(s)) THEN 1 + DigitRunLen(Tail(s)) ELSE 0

\* the length of the longest prefix of s made of regexp spaces (\s*, greedy)
RECURSIVE SpaceRunLen(_)
SpaceRunLen(s) ==
    IF s # <<>> /\ IsRegexpSpace(Head(s)) THEN 1 + SpaceRunLen(Tail(s)) ELSE 0

W_bytes == <<"b","y","t","e","s">>
W_b == <<"b">>
W_kib == <<"k","i","b">>
W_mb == <<"m","b">>
W_mib == <<"m","i","b">>
W_gb == <<"g","b">>
W_gib == <<"g","i","b">>
W_physical == <<"p","h","y","s","i","c","a","l">>
W_footprint == <<"f","o","o","t","p","r","i","n","t">>

\* the alternatives of the unit group of sizePattern, in the order the pattern tries them
SizeUnits == <<W_bytes, W_b, W_kb, W_kib, W_mb, W_mib, W_gb, W_gib>>

\* the unit group of sizePattern matched at the head of rest (lower-cased): the
\* first alternative that matches
SizeUnitAt(number, hits) ==
    IF number = <<>> \/ hits = {} THEN [found |-> FALSE, number |-> <<>>, unit |-> <<>>]
    ELSE [found |-> TRUE, number |-> number,
          unit |-> SizeUnits[CHOOSE k \in hits : \A m \in hits : k <= m]]

SizeUnitHits(rest) == {k \in DOMAIN SizeUnits : HasPrefix(rest, SizeUnits[k])}

\* the match of \s*(unit) after the number
SizeAfterNumber(number, after) ==
    SizeUnitAt(number, SizeUnitHits(ToLower(Drop(after, SpaceRunLen(after)))))

\* the length of (?:\.\d+)? at the head of s, greedy
FractionLen(s) ==
    IF Len(s) >= 2 /\ s[1] = "." /\ IsDigit(s[2]) THEN 1 + DigitRunLen(Tail(s)) ELSE 0

SizeNumberLen(s, n) == SizeAfterNumber(Take(s, n), Drop(s, n))

SizeIntegerLen(s, d1) ==
    IF d1 = 0 THEN [found |-> FALSE, number |-> <<>>, unit |-> <<>>]
    ELSE SizeNumberLen(s, d1 + FractionLen(Drop(s, d1)))

\* sizePattern anchored at the head of s: (\d+(?:\.\d+)?)\s*(unit), case-insensitive
SizeMatchHere(s) == SizeIntegerLen(s, DigitRunLen(s))

SizeFound(m) == m.found

\* sizePattern.FindStringSubmatch: the leftmost match
RECURSIVE SizeFind(_)
SizeFind(s) ==
    IF s = <<>> THEN [found |-> FALSE, number |-> <<>>, unit |-> <<>>]
    ELSE IF SizeFound(SizeMatchHere(s)) THEN SizeMatchHere(s) ELSE SizeFind(Tail(s))

\* (A variant that takes a kilobyte for 1000 bytes.)
SizeValueDecimal(unit, value) ==
    IF ~value.ok THEN [v |-> Num(0), err |-> Err("*strconv.NumError", "invalid syntax")]
    ELSE CASE unit \in {W_bytes, W_b} -> [v |-> FDiv(value.v, 1024 * 1024), err |-> NoErr]
           [] unit \in {W_kb, W_kib}  -> [v |-> FDiv(value.v, 1000), err |-> NoErr]
           [] unit \in {W_mb, W_mib}  -> [v |-> value.v, err |-> NoErr]
           [] unit \in {W_gb, W_gib}  -> [v |-> FMul(value.v, 1024), err |-> NoErr]

SizeValue(unit, value) ==
    IF ~value.ok THEN [v |-> Num(0), err |-> Err("*strconv.NumError", "invalid syntax")]
    ELSE CASE unit \in {W_bytes, W_b} -> [v |-> FDiv(value.v, 1024 * 1024), err |-> NoErr]
           [] unit \in {W_kb, W_kib}  -> [v |-> FDiv(value.v, 1024), err |-> NoErr]
           [] unit \in {W_mb, W_mib}  -> [v |-> value.v, err |-> NoErr]
           [] unit \in {W_gb, W_gib}  -> [v |-> FMul(value.v, 1024), err |-> NoErr]

SizeMatchToMB(m) ==
    IF ~m.found THEN [v |-> Num(0), err |-> ErrNotFound("size pattern not found")]
    ELSE SizeValue(m.unit, ParseFloat(m.number))

parseSizeToMB(line) == SizeMatchToMB(SizeFind(line))

\* parseIOSMemoryOutput: whether the line (trimmed) names the physical footprint
IsFootprintLine(lower) ==
    lower # <<>> /\ Contains(lower, W_physical) /\ Contains(lower, W_footprint)

FootprintOK(r) == r.err = NoErr

RECURSIVE parseIOSMemoryOutput(_)
parseIOSMemoryOutput(output) ==
    IF output = <<>> THEN [v |-> Num(0), err |-> ErrNotFound("physical footprint not found")]
    ELSE IF IsFootprintLine(ToLower(TrimSpace(Head(output))))
            /\ FootprintOK(parseSizeToMB(TrimSpace(Head(output))))
    THEN parseSizeToMB(TrimSpace(Head(output)))
    ELSE parseIOSMemoryOutput(Tail(output))

\* resolveIOSPID, the scan of the `launchctl list` output
RECURSIVE ScanLaunchctlForPID(_, _)
ScanLaunchctlForPID(lines, bundleID) ==
    IF lines = <<>> THEN [pid |-> <<>>, err |-> ErrNotFound("process pid not found via launchctl")]
    ELSE LET line   == TrimSpace(Head(lines))
             fields == Fields(line)
         IN  IF line = <<>> \/ Len(fields) < 3
                \/ ~Contains(fields[Len(fields)], bundleID)
                \/ fields[1] = <<"-">> \/ ~AtoiOK(fields[1])
             THEN ScanLaunchctlForPID(Tail(lines), bundleID)
             ELSE [pid |-> fields[1], err |-> NoErr]

ErrNum == Err("*strconv.NumError", "invalid syntax")

\* parseDarwinTime: case 2 of the switch, MM:SS
DarwinMinSec(minutes, seconds, dayMs) ==
    IF ~minutes.ok \/ ~seconds.ok THEN [v |-> Num(0), err |-> ErrNum]
    ELSE [v |-> FAdd(FMul(FAdd(FMul(minutes.v, 60), seconds.v), 1000), dayMs),
          err |-> NoErr]

\* parseDarwinTime: case 3 of the switch, HH:MM:SS
DarwinHourMinSec(hours, minutes, seconds, dayMs) ==
    IF ~hours.ok \/ ~minutes.ok \/ ~seconds.ok THEN [v |-> Num(0), err |-> ErrNum]
    ELSE [v |-> FAdd(FMul(FAdd(FAdd(FMul(hours.v, 3600), FMul(minutes.v, 60)), seconds.v),
                          1000), dayMs),
          err |-> NoErr]

\* parseDarwinTime from strings.Split(core, ":") on, dayMs being daySeconds * 1000
DarwinClock(parts, dayMs) ==
    CASE Len(parts) = 2 ->
            DarwinMinSec(ParseFloat(parts[1]), ParseFloat(parts[2]), dayMs)
      [] Len(parts) = 3 ->
            DarwinHourMinSec(ParseFloat(parts[1]), ParseFloat(parts[2]),
                             ParseFloat(parts[3]), dayMs)
      [] OTHER -> [v |-> Num(0), err |-> ErrNotFound("unsupported time format")]

\* (A variant that counts a day as an hour.)
DarwinDaysAsHours(days, core) ==
    IF ~days.ok THEN [v |-> Num(0), err |-> ErrNum]
    ELSE DarwinClock(Split(core, ":"), FMul(FMul(days.v, 3600), 1000))

\* parseDarwinTime when the value holds a "-": the days before it
DarwinDays(days, core) ==
    IF ~days.ok THEN [v |-> Num(0), err |-> ErrNum]
    ELSE DarwinClock(Split(core, ":"), FMul(FMul(FMul(days.v, 24), 3600), 1000))

DarwinDayParts(dayParts) == DarwinDays(ParseFloat(dayParts[1]), dayParts[2])

parseDarwinTime(value) ==
    IF Contains(value, <<"-">>) THEN DarwinDayParts(SplitN2(value, "-"))
    ELSE DarwinClock(Split(value, ":"), Num(0))

\* (A variant that returns the column that parsed when the other did not.)
PSRowMetricsPartial(cpu, t) ==
    IF ~cpu.ok /\ t.err # NoErr THEN [percent |-> Num(0), ms |-> Num(0), err |-> ErrNum]
    ELSE [percent |-> IF cpu.ok THEN cpu.v ELSE Num(0),
          ms |-> IF t.err = NoErr THEN t.v ELSE Num(0), err |-> NoErr]

\* parseIOSPSMetrics: a row whose first field is the pid
PSRowMetrics(cpu, t) ==
    IF ~cpu.ok THEN [percent |-> Num(0), ms |-> Num(0), err |-> ErrNum]
    ELSE IF t.err # NoErr THEN [percent |-> Num(0), ms |-> Num(0), err |-> t.err]
    ELSE [percent |-> cpu.v, ms |-> t.v, err |-> NoErr]

\* parseIOSPSMetrics: whether the row with these fields is the one for pid
PSRowMatches(fields, pid) == Len(fields) >= 3 /\ fields[1] = pid

PSRowFields(fields) == PSRowMetrics(ParseFloat(fields[2]), parseDarwinTime(fields[3]))

\* (A variant that looks at the line after the header only.)
ScanPSRowsFirstOnly(lines, pid) ==
    IF lines # <<>> /\ PSRowMatches(Fields(Head(lines)), pid)
    THEN PSRowFields(Fields(Head(lines)))
    ELSE [percent |-> Num(0), ms |-> Num(0),
          err |-> ErrNotFound("cpu metrics not found in ps output")]

\* parseIOSPSMetrics after the header line has been skipped
RECURSIVE ScanPSRows(_, _)
ScanPSRows(lines, pid) ==
    IF lines = <<>>
    THEN [percent |-> Num(0), ms |-> Num(0),
          err |-> ErrNotFound("cpu metrics not found in ps output")]
    ELSE IF PSRowMatches(Fields(Head(lines)), pid)
    THEN PSRowFields(Fields(Head(lines)))
    ELSE ScanPSRows(Tail(lines), pid)

\* parseIOSPSMetrics: the first non-blank line is taken for the header
RECURSIVE parseIOSPSMetrics(_, _)
parseIOSPSMetrics(output, pid) ==
    IF output = <<>> THEN ScanPSRows(<<>>, pid)
    ELSE IF TrimSpace(Head(output)) = <<>> THEN parseIOSPSMetrics(Tail(output), pid)
    ELSE ScanPSRows(Tail(output), pid)

-----------------------------------------------------------------------------
(* ios: resolveDeviceMetadata                                                *)

W_SimRuntimePrefix == <<"c","o","m",".","a","p","p","l","e",".","C","o","r","e","S","i","m","u","l","a","t","o","r",".","S","i","m","R","u","n","t","i","m","e",".">>
W_ios == <<"i","o","s">>
W_iOS == <<"i","O","S">>
W_ipados == <<"i","p","a","d","o","s">>
W_iPadOS == <<"i","P","a","d","O","S">>
W_tvos == <<"t","v","o","s">>
W_tvOS == <<"t","v","O","S">>
W_Booted == <<"B","o","o","t","e","d">>

ReplaceAllChar(s, from, to) == [i \in DOMAIN s |-> IF s[i] = from THEN to ELSE s[i]]

\* strings.Join(parts, sep)
RECURSIVE Join(_, _)
Join(parts, sep) ==
    IF parts = <<>> THEN <<>>
    ELSE IF Len(parts) = 1 THEN parts[1]
    ELSE parts[1] \o sep \o Join(Tail(parts), sep)

runtimeToVersion(runtime) ==
    LET r1      == IF HasPrefix(runtime, W_SimRuntimePrefix)
                   THEN Drop(runtime, Len(W_SimRuntimePrefix)) ELSE runtime
        r2      == ReplaceAllChar(r1, "_", "-")
        parts   == Split(r2, "-")
        lower   == ToLower(parts[1])
        name    == CASE lower = W_ios    -> W_iOS
                     [] lower = W_ipados -> W_iPadOS
                     [] lower = W_tvos   -> W_tvOS
                     [] OTHER -> IF lower # <<>>
                                 THEN <<ToUpperChar(lower[1])>> \o Tail(lower) ELSE lower
        version == Join(Tail(parts), <<".">>)
    IN  IF Len(parts) < 2 THEN TrimSpace(r2)
        ELSE TrimSpace(name \o <<" ">> \o version)

simctlToMetadata(device) ==
    [nil |-> FALSE, ID |-> device.UDID, Model |-> device.Name,
     OSVersion |-> IF device.Runtime # <<>> THEN runtimeToVersion(device.Runtime) ELSE <<>>,
     Platform |-> "ios",
     Resolution |-> device.DeviceTypeIdentifier]

\* &report.DeviceMetadata{Platform: "ios"}
EmptyIOSDevice == [NilDevice EXCEPT !.nil = FALSE, !.Platform = "ios"]

\* (A variant that forgets the requested id when the listing does not hold it.)
resolveDeviceMetadataNoFallback(devices, err, requestedID) ==
    IF err # NoErr /\ requestedID = ""
    THEN {[meta |-> EmptyIOSDevice, err |-> NoErr]}
    ELSE IF err # NoErr THEN {[meta |-> NilDevice, err |-> err]}
    ELSE IF requestedID # "" /\ \E d \in devices : d.UDID = requestedID
    THEN {[meta |-> simctlToMetadata(d), err |-> NoErr] :
             d \in {x \in devices : x.UDID = requestedID}}
    ELSE IF \E d \in devices : EqualFold(d.State, W_Booted)
    THEN {[meta |-> simctlToMetadata(d), err |-> NoErr] :
             d \in {x \in devices : EqualFold(x.State, W_Booted)}}
    ELSE {[meta |-> EmptyIOSDevice, err |-> NoErr]}

\* resolveDeviceMetadata: the records it may return for the listing `devices`
\* (the map of udid -> simctlDevice as a set of records with distinct udids),
\* listing error `err` and requested id.  With no requested id the booted
\* record is picked by a range over a Go map, whose iteration order is not
\* defined: any booted record may be the one returned.
resolveDeviceMetadata(devices, err, requestedID) ==
    IF err # NoErr /\ requestedID = ""
    THEN {[meta |-> EmptyIOSDevice, err |-> NoErr]}
    ELSE IF err # NoErr THEN {[meta |-> NilDevice, err |-> err]}
    ELSE IF requestedID # ""
    THEN IF \E d \in devices : d.UDID = requestedID
         THEN {[meta |-> simctlToMetadata(d), err |-> NoErr] :
                  d \in {x \in devices : x.UDID = requestedID}}
         ELSE {[meta |-> [EmptyIOSDevice EXCEPT !.ID = requestedID], err |-> NoErr]}
    ELSE IF \E d \in devices : EqualFold(d.State, W_Booted)
    THEN {[meta |-> simctlToMetadata(d), err |-> NoErr] :
             d \in {x \in devices : EqualFold(x.State, W_Booted)}}
    ELSE {[meta |-> EmptyIOSDevice, err |-> NoErr]}

-----------------------------------------------------------------------------
(* The outputs of the external tools (scripts/mock-adb.sh and variations).   *)

Pkg == <<"c","o","m",".","e","x","a","m","p","l","e",".","a","p","p">>
Act == <<".","B","e","n","c","h","m","a","r","k","A","c","t","i","v","i","t","y">>
Bundle == <<"c","o","m",".","e","x","a","m","p","l","e",".","i","o","s">>
W_component == <<"c","o","m","p","o","n","e","n","t">>

\* adb shell am start -W
LineStarting == <<"S","t","a","r","t","i","n","g",":"," ","I","n","t","e","n","t"," ","{"," ","a","c","t","=","a","n","d","r","o","i","d",".","i","n","t","e","n","t",".","a","c","t","i","o","n",".","M","A","I","N"," ","c","m","p","=","m","o","c","k","/",".","B","e","n","c","h","m","a","r","k","A","c","t","i","v","i","t","y"," ","}">>
LineStatusOk == <<"S","t","a","t","u","s",":"," ","o","k">>
LineLaunchStateCOLD == <<"L","a","u","n","c","h","S","t","a","t","e",":"," ","C","O","L","D">>
LineThisTime8 == <<"T","h","i","s","T","i","m","e",":"," ","8">>
LineTotalTime12 == <<"T","o","t","a","l","T","i","m","e",":"," ","1","2">>
LineWaitTime14 == <<"W","a","i","t","T","i","m","e",":"," ","1","4">>
LineComplete == <<"C","o","m","p","l","e","t","e">>
MockLaunchOutput ==
    <<LineStarting, LineStatusOk, LineLaunchStateCOLD, LineThisTime8, LineTotalTime12,
      LineWaitTime14, LineComplete>>

\* adb shell dumpsys meminfo <package>
LineMemHeader == <<"A","p","p","l","i","c","a","t","i","o","n","s"," ","M","e","m","o","r","y"," ","U","s","a","g","e"," ","(","k","B",")",":">>
LineUptime == <<"U","p","t","i","m","e",":"," ","1","2","3","4","5","6"," ","R","e","a","l","t","i","m","e",":"," ","1","2","3","4","5","6">>
LineMeminfoPid == <<"*","*"," ","M","E","M","I","N","F","O"," ","i","n"," ","p","i","d"," ","4","2","4","2"," ","[","c","o","m",".","e","x","a","m","p","l","e",".","a","p","p","]"," ","*","*">>
LinePssPrivate == <<" "," "," "," "," "," "," "," "," "," "," "," "," "," "," "," "," "," "," "," ","P","s","s"," "," ","P","r","i","v","a","t","e">>
LineDalvik == <<" "," "," "," "," "," "," "," "," "," "," ","D","a","l","v","i","k"," "," ","1","0","2","4"," "," "," ","5","1","2">>
LineTOTAL4096 == <<" "," "," "," "," "," "," "," "," "," "," "," ","T","O","T","A","L"," "," ","4","0","9","6"," "," "," ","2","0","4","8">>
MockMeminfo ==
    <<LineMemHeader, LineUptime, <<>>, LineMeminfoPid, LinePssPrivate, LineDalvik,
      LineTOTAL4096>>

\* adb shell getprop / wm size / pidof / ps / top / dumpsys cpuinfo / cat /proc/<pid>/stat
LinePixelMock == <<"P","i","x","e","l"," ","M","o","c","k">>
Line14 == <<"1","4">>
LinePhysicalSize == <<"P","h","y","s","i","c","a","l"," ","s","i","z","e",":"," ","1","0","8","0","x","2","4","0","0">>
Line4242 == <<"4","2","4","2">>
LinePSHeader == <<"P","I","D"," "," "," ","N","A","M","E">>
LinePSRow == <<"4","2","4","2"," "," ","c","o","m",".","e","x","a","m","p","l","e",".","a","p","p">>
LineTasks == <<"T","a","s","k","s",":"," ","1"," ","t","o","t","a","l">>
LineTopHeader == <<"P","I","D"," "," "," ","C","P","U","%"," "," "," ","N","A","M","E">>
LineTopRow == <<"4","2","4","2"," "," ","1","0","%"," "," "," ","c","o","m",".","e","x","a","m","p","l","e",".","a","p","p">>
LineLoad == <<"L","o","a","d",":"," ","5",".","0","0"," ","/"," ","3",".","0","0"," ","/"," ","2",".","0","0">>
LineCpuinfoRow == <<" ","1","0","%"," ","4","2","4","2","/","c","o","m",".","e","x","a","m","p","l","e",".","a","p","p">>
LineStat == <<"4","2","4","2"," ","(","m","o","c","k",")"," ","S"," ","0"," ","0"," ","0"," ","0"," ","0"," ","0"," ","0"," ","0"," ","0"," ","0"," ","1","0","0"," ","5","0"," ","0"," ","0"," ","0"," ","0"," ","0"," ","0"," ","0"," ","0"," ","0"," ","0"," ","0"," ","0">>
Line4242And4300 == <<"4","2","4","2"," ","4","3","0","0">>
LinePSRowUser == <<"u","0","_","a","1"," ","7","7","7"," ","c","o","m",".","e","x","a","m","p","l","e",".","a","p","p">>
LinePSRowOther == <<"4","3","0","0"," "," ","c","o","m",".","e","x","a","m","p","l","e",".","o","t","h","e","r">>
LineTopRowIdle == <<"4","2","4","2"," "," ","S"," "," ","c","o","m",".","e","x","a","m","p","l","e",".","a","p","p">>
LineTopRowZero == <<"4","2","4","2"," "," ","0","%"," "," ","c","o","m",".","e","x","a","m","p","l","e",".","a","p","p">>
LineTopRow4300 == <<"4","3","0","0"," "," ","5","5","%"," "," ","c","o","m",".","e","x","a","m","p","l","e",".","o","t","h","e","r">>
LineStatShort == <<"4","2","4","2"," ","(","m","o","c","k",")"," ","S"," ","0"," ","0">>

\* xcrun simctl spawn <device> memory_usage / launchctl list / ps
LineFootprint == <<"P","h","y","s","i","c","a","l"," ","f","o","o","t","p","r","i","n","t",":"," ","5","2",".","3"," ","M","B">>
LineNoFootprint == <<"m","e","m","o","r","y","_","u","s","a","g","e",":"," ","n","o"," ","d","a","t","a">>
LineLaunchctlHeader == <<"P","I","D"," ","S","t","a","t","u","s"," ","L","a","b","e","l">>
LineLaunchctlRow == <<"4","2","4","2"," ","0"," ","U","I","K","i","t","A","p","p","l","i","c","a","t","i","o","n",":","c","o","m",".","e","x","a","m","p","l","e",".","i","o","s","[","1","f","2","e","]">>
LineLaunchctlIdle == <<"-"," ","0"," ","c","o","m",".","a","p","p","l","e",".","m","o","b","i","l","e","a","s","s","e","t","d">>
LineIOSPSHeader == <<" "," ","P","I","D"," "," ","%","C","P","U"," "," "," "," "," "," ","T","I","M","E">>
LineIOSPSRow == <<" ","4","2","4","2"," "," "," ","1",".","5"," "," "," ","0",":","0","1",".","5","0">>
LineIOSPSRowBadCPU == <<" ","4","2","4","2"," "," "," ","n","/","a"," "," "," ","0",":","0","1",".","5","0">>
LineIOSPSRowBadTime == <<" ","4","2","4","2"," "," "," ","1",".","5"," "," "," ","9","0">>

\* xcrun simctl list devices --json, decoded
W_iPhone15 == <<"i","P","h","o","n","e"," ","1","5">>
W_iPadAir == <<"i","P","a","d"," ","A","i","r">>
W_Shutdown == <<"S","h","u","t","d","o","w","n">>
W_RuntimeIOS17 == <<"c","o","m",".","a","p","p","l","e",".","C","o","r","e","S","i","m","u","l","a","t","o","r",".","S","i","m","R","u","n","t","i","m","e",".","i","O","S","-","1","7","-","2">>
W_TypeIPhone15 == <<"c","o","m",".","a","p","p","l","e",".","C","o","r","e","S","i","m","u","l","a","t","o","r",".","S","i","m","D","e","v","i","c","e","T","y","p","e",".","i","P","h","o","n","e","-","1","5">>
W_TypeIPadAir == <<"c","o","m",".","a","p","p","l","e",".","C","o","r","e","S","i","m","u","l","a","t","o","r",".","S","i","m","D","e","v","i","c","e","T","y","p","e",".","i","P","a","d","-","A","i","r">>

Sim1 == [UDID |-> "SIM-1", Name |-> W_iPhone15, State |-> W_Booted,
         DeviceTypeIdentifier |-> W_TypeIPhone15, Runtime |-> W_RuntimeIOS17]
Sim2 == [UDID |-> "SIM-2", Name |-> W_iPadAir, State |-> ToLower(W_Booted),
         DeviceTypeIdentifier |-> W_TypeIPadAir, Runtime |-> W_RuntimeIOS17]
Sim3 == [UDID |-> "SIM-3", Name |-> W_iPhone15, State |-> W_Shutdown,
         DeviceTypeIdentifier |-> W_TypeIPhone15, Runtime |-> W_RuntimeIOS17]

\* the external processes, named by the command line that starts them
AndroidProbes ==
    {"am start", "getprop model", "getprop release", "wm size", "dumpsys meminfo",
     "pidof", "ps", "top", "dumpsys cpuinfo", "cat stat"}
IOSProbes ==
    {"simctl list", "simctl launch", "memory_usage", "launchctl list", "simctl ps"}
Probes == AndroidProbes \cup IOSProbes

\* what each process may print when it exits with status 0
Outputs(p) ==
    CASE p = "am start"         -> {MockLaunchOutput, <<LineStatusOk, LineComplete>>}
      [] p = "getprop model"    -> {<<LinePixelMock>>, <<>>}
      [] p = "getprop release"  -> {<<Line14>>}
      [] p = "wm size"          -> {<<LinePhysicalSize>>}
      [] p = "dumpsys meminfo"  -> {MockMeminfo, <<LineMemHeader, LineDalvik>>}
      [] p = "pidof"            -> {<<Line4242>>, <<Line4242And4300>>, <<>>}
      [] p = "ps"               -> {<<LinePSHeader, LinePSRow>>, <<LinePSHeader>>,
                                    <<LinePSHeader, LinePSRowOther, LinePSRowUser, LinePSRow>>,
                                    <<LinePSHeader, LinePSRowUser>>}
      [] p = "top"              -> {<<LineTasks, LineTopHeader, LineTopRow>>, <<LineTasks>>,
                                    <<LineTasks, LineTopHeader, LineTopRowIdle>>,
                                    <<LineTasks, LineTopHeader, LineTopRow4300, LineTopRowZero>>}
      [] p = "dumpsys cpuinfo"  -> {<<LineLoad, LineCpuinfoRow>>, <<LineLoad>>}
      [] p = "cat stat"         -> {<<LineStat>>, <<LineStatShort>>}
      [] p = "simctl list"      -> {[json |-> TRUE, devices |-> {Sim1, Sim2, Sim3}],
                                    [json |-> TRUE, devices |-> {Sim3}],
                                    [json |-> FALSE, devices |-> {}]}
      [] p = "simctl launch"    -> {<<>>}
      [] p = "memory_usage"     -> {<<LineFootprint>>, <<LineNoFootprint>>}
      [] p = "launchctl list"   -> {<<LineLaunchctlHeader, LineLaunchctlIdle, LineLaunchctlRow>>,
                                    <<LineLaunchctlHeader, LineLaunchctlIdle>>}
      [] p = "simctl ps"        -> {<<LineIOSPSHeader, LineIOSPSRow>>, <<LineIOSPSHeader>>,
                                    <<LineIOSPSHeader, LineIOSPSRowBadCPU>>,
                                    <<LineIOSPSHeader, LineIOSPSRowBadTime>>}

-----------------------------------------------------------------------------
(* The process invoker: exec.CommandContext(ctx, ...) followed by Run or      *)
(* CombinedOutput.                                                           *)

NoProc == ""

\* a process that exited with a non-zero status
ErrExit == Err("*exec.ExitError", "exit status 1")

\* a process killed because the context's deadline passed while it ran: Wait
\* reports the state of the process, which is that of a process ended by a signal
ErrKilled == Err("*exec.ExitError", "signal: killed")

\* the context was already done when the process was to be started
ErrDeadline == Err("context.DeadlineExceeded", "context deadline exceeded")

\* the executable could not be started
ErrExec == Err("*exec.Error", "executable file not found in $PATH")

\* fmt.Errorf("<prefix>: %w", err): the chain keeps the kind of err
Wrap(prefix, err) == [kind |-> err.kind, msg |-> prefix \o ": " \o err.msg]

\* the output handed on when the process failed
NoOutput(p) == IF p = "simctl list" THEN [json |-> FALSE, devices |-> {}] ELSE <<>>

\* How a running process may end, given whether the deadline has passed.  Once
\* it has passed the process is sent a kill signal: it ends by the signal, or
\* it had exited already ("ok", "exit"), or it had exited with status 0 but was
\* not yet waited for when the signal was sent, and Wait reports ctx.Err()
\* ("late", os/exec of Go 1.20 and later).
ProcessResults(p, isExpired) ==
    {[cause |-> "ok", err |-> NoErr, out |-> o] : o \in Outputs(p)}
    \cup {[cause |-> "exit", err |-> ErrExit, out |-> NoOutput(p)]}
    \cup (IF isExpired
          THEN {[cause |-> "killed", err |-> ErrKilled, out |-> NoOutput(p)],
                [cause |-> "late", err |-> ErrDeadline, out |-> NoOutput(p)]}
          ELSE {})

\* how starting a process may fail: the context is done, or (for the first
\* use of a tool) the executable is missing
StartFailures(p, isExpired) ==
    IF isExpired THEN {[cause |-> "deadline", err |-> ErrDeadline, out |-> NoOutput(p)]}
    ELSE IF p \in {"am start", "simctl list", "simctl launch"}
    THEN {[cause |-> "nostart", err |-> ErrExec, out |-> NoOutput(p)]}
    ELSE {}

-----------------------------------------------------------------------------
(* The state of a command.                                                   *)

\* a nil *report.IOSMetrics, and &report.IOSMetrics{}
NilIOSMetrics ==
    [nil |-> TRUE, Component |-> <<>>, BundleID |-> <<>>, RenderTimeMs |-> Num(0),
     MemoryMB |-> Num(0), CPUPercent |-> Num(0), CPUTimeMs |-> Num(0),
     Device |-> NilDevice, Command |-> ""]

NoResult ==
    [nil |-> TRUE, Component |-> <<>>, Android |-> NilAndroidMetrics,
     IOS |-> NilIOSMetrics, CLICommand |-> ""]

NotReturnedA == [returned |-> FALSE, metrics |-> NilAndroidMetrics, err |-> NoErr]

NotReturnedI == [returned |-> FALSE, metrics |-> NilIOSMetrics, err |-> NoErr]

NoRun == [proc |-> NoProc, cause |-> "", err |-> NoErr, out |-> <<>>]

\* the local variables of android.Run / ios.Run and of the functions they call
ZeroLoc ==
    [am |-> NilAndroidMetrics, im |-> NilIOSMetrics, meta |-> NilDevice,
     memErr |-> NoErr, pid |-> <<>>, pidofErr |-> NoErr,
     cpuPercent |-> Num(0), percentErr |-> NoErr,
     cpuTimeMs |-> Num(0), timeErr |-> NoErr, cpuErr |-> NoErr]

NoOpts ==
    [package |-> <<>>, activity |-> <<>>, aDevice |-> "", bundle |-> <<>>,
     iDevice |-> "", timeout |-> ""]

\* resolveComponent with --component not given
resolveComponent(fallback) == IF fallback # <<>> THEN fallback ELSE W_component

\* defaultComponentName(activity, bundleID)
defaultComponentName(a, b) == IF a # <<>> THEN a ELSE b

Component ==
    CASE cmd = "android" -> resolveComponent(opts.activity)
      [] cmd = "ios"     -> resolveComponent(opts.bundle)
      [] OTHER           -> resolveComponent(defaultComponentName(opts.activity, opts.bundle))

-----------------------------------------------------------------------------
(* android.Run                                                               *)

\* (A variant that checks nothing before the launch.)
AndroidConfigErrorNone(o) == NoErr

\* the checks at the head of android.Run
AndroidConfigError(o) ==
    IF o.package = <<>> THEN Err("errors.New", "android package name is required")
    ELSE IF o.activity = <<>> THEN Err("errors.New", "android activity is required")
    ELSE NoErr

ReturnA(metrics, err) ==
    /\ aRet' = [returned |-> TRUE, metrics |-> metrics, err |-> err]
    /\ pc' = "a_return"

AndroidRunEnter ==
    /\ pc = "a_enter"
    /\ IF AndroidConfigError(opts) # NoErr
       THEN ReturnA(NilAndroidMetrics, AndroidConfigError(opts))
       ELSE pc' = "am start" /\ aRet' = aRet
    /\ loc' = ZeroLoc
    /\ UNCHANGED <<cmd, opts, expired, proc, spawned, lastRun, iRet, printed, saved,
                   cmdErr, parseVars>>

\* (A variant that carries on with the output of a launch that failed.)
AfterLaunchAIgnoringError(res) ==
    /\ loc' = [loc EXCEPT
                 !.am = [parseLaunchOutput(res.out) EXCEPT
                            !.Component = Component,
                            !.Activity = opts.activity,
                            !.Package = opts.package,
                            !.Command = "adb shell am start -W"],
                 !.meta = [NilDevice EXCEPT !.nil = FALSE, !.ID = opts.aDevice,
                                            !.Platform = "android"]]
    /\ pc' = "getprop model"
    /\ aRet' = aRet

\* cmd.Run() of the launch returned: the error return, or parseLaunchOutput
\* and the fields Run fills in, up to the first statement of fetchDeviceMetadata
AfterLaunchA(res) ==
    IF res.err # NoErr
    THEN ReturnA(NilAndroidMetrics, Wrap("run adb", res.err)) /\ loc' = loc
    ELSE /\ loc' = [loc EXCEPT
                      !.am = [parseLaunchOutput(res.out) EXCEPT
                                 !.Component = Component,
                                 !.Activity = opts.activity,
                                 !.Package = opts.package,
                                 !.Command = "adb shell am start -W"],
                      !.meta = [NilDevice EXCEPT !.nil = FALSE, !.ID = opts.aDevice,
                                                 !.Platform = "android"]]
         /\ pc' = "getprop model"
         /\ aRet' = aRet

\* fetchDeviceMetadata: the three lookups and the collapse to nil
AfterModel(res) ==
    /\ loc' = IF res.err = NoErr
              THEN [loc EXCEPT !.meta.Model = TrimSpace(Text(res.out))] ELSE loc
    /\ pc' = "getprop release"
    /\ aRet' = aRet

AfterRelease(res) ==
    /\ loc' = IF res.err = NoErr
              THEN [loc EXCEPT !.meta.OSVersion = TrimSpace(Text(res.out))] ELSE loc
    /\ pc' = "wm size"
    /\ aRet' = aRet

\* (A variant that returns the record whatever it holds.)
AfterSizeNoCollapse(res) ==
    LET meta == IF res.err = NoErr
                THEN [loc.meta EXCEPT !.Resolution = TrimSpace(Text(res.out))]
                ELSE loc.meta
    IN  /\ loc' = [loc EXCEPT !.meta = meta, !.am.Device = meta]
        /\ pc' = "dumpsys meminfo"
        /\ aRet' = aRet

AfterSize(res) ==
    LET meta == IF res.err = NoErr
                THEN [loc.meta EXCEPT !.Resolution = TrimSpace(Text(res.out))]
                ELSE loc.meta
        dev  == IF meta.Model = <<>> /\ meta.OSVersion = <<>> /\ meta.Resolution = <<>>
                   /\ meta.ID = ""
                THEN NilDevice ELSE meta
    IN  /\ loc' = [loc EXCEPT !.meta = meta, !.am.Device = dev]
        /\ pc' = "dumpsys meminfo"
        /\ aRet' = aRet

\* collectMemoryUsage, given how `dumpsys meminfo` ended
collectMemoryUsageA(res) ==
    IF res.err # NoErr THEN [v |-> Num(0), err |-> Wrap("dumpsys meminfo", res.err)]
    ELSE parseMeminfoForMB(res.out)

\* (A variant in which a failed memory probe ends Run with its error.)
AfterMemoryAFatal(res) ==
    LET r == collectMemoryUsageA(res)
    IN  IF r.err # NoErr
        THEN ReturnA(NilAndroidMetrics, r.err) /\ loc' = [loc EXCEPT !.memErr = r.err]
        ELSE /\ loc' = [loc EXCEPT !.memErr = r.err, !.am.MemoryMB = r.v]
             /\ pc' = "pidof"
             /\ aRet' = aRet

\* Run: if memoryMB, err := collectMemoryUsage(...); err == nil { ... }
AfterMemoryA(res) ==
    LET r == collectMemoryUsageA(res)
    IN  /\ loc' = IF r.err = NoErr
                  THEN [loc EXCEPT !.memErr = r.err, !.am.MemoryMB = r.v]
                  ELSE [loc EXCEPT !.memErr = r.err]
        /\ pc' = "pidof"
        /\ aRet' = aRet

\* (A variant that fails the CPU step as soon as one measurement failed.)
collectCPUResultEither(cpuPercent, percentErr, cpuTimeMs, timeErr) ==
    IF percentErr # NoErr \/ timeErr # NoErr
    THEN [percent |-> Num(0), ms |-> Num(0),
          err |-> Err("fmt.Errorf", "cpu metrics unavailable")]
    ELSE [percent |-> cpuPercent, ms |-> cpuTimeMs, err |-> NoErr]

\* collectCPUMetrics, after both measurements: the three values it returns
collectCPUResult(cpuPercent, percentErr, cpuTimeMs, timeErr) ==
    IF percentErr # NoErr /\ timeErr # NoErr
    THEN [percent |-> Num(0), ms |-> Num(0),
          err |-> Err("fmt.Errorf", "cpu metrics unavailable")]
    ELSE [percent |-> cpuPercent, ms |-> cpuTimeMs, err |-> NoErr]

\* Run: the CPU fields are stored when the step succeeded and the value is > 0
ApplyCPU(m, r) ==
    IF r.err # NoErr THEN m
    ELSE [m EXCEPT !.CPUPercent = IF FPositive(r.percent) THEN r.percent ELSE @,
                   !.CPUTimeMs  = IF FPositive(r.ms) THEN r.ms ELSE @]

\* collectCPUMetrics returned early: pid resolution failed
CPUStepFailsA(err) ==
    /\ loc' = [loc EXCEPT !.cpuErr = err]
    /\ ReturnA(loc.am, NoErr)

\* (A variant that runs ps whatever pidof printed.)
AfterPidofThenPS(res) ==
    /\ loc' = [loc EXCEPT !.pidofErr = res.err]
    /\ pc' = "ps"
    /\ aRet' = aRet

\* resolveAndroidPID
AfterPidof(res) ==
    LET pid == TrimSpace(Text(res.out))
    IN  /\ IF res.err = NoErr /\ pid # <<>>
           THEN loc' = [loc EXCEPT !.pid = Fields(pid)[1]] /\ pc' = "top"
           ELSE loc' = [loc EXCEPT !.pidofErr = res.err] /\ pc' = "ps"
        /\ aRet' = aRet

AfterPS(res) ==
    LET r == ScanPSForPID(res.out, opts.package)
    IN  IF res.err # NoErr
        THEN CPUStepFailsA(IF loc.pidofErr # NoErr
                           THEN Err("fmt.Errorf", "pid lookup failed") ELSE res.err)
        ELSE IF r.err # NoErr THEN CPUStepFailsA(r.err)
        ELSE loc' = [loc EXCEPT !.pid = r.pid] /\ pc' = "top" /\ aRet' = aRet

\* (A variant that takes the failure of the snapshot for the result.)
AfterTopNoFallback(res) ==
    LET r == IF res.err # NoErr THEN [v |-> Num(0), err |-> res.err]
             ELSE parseAndroidTopCPU(res.out, loc.pid)
    IN  /\ loc' = [loc EXCEPT !.cpuPercent = r.v, !.percentErr = r.err]
        /\ pc' = "cat stat"
        /\ aRet' = aRet

\* androidCPUPercent
AfterTop(res) ==
    LET r == parseAndroidTopCPU(res.out, loc.pid)
    IN  /\ IF res.err = NoErr /\ r.err = NoErr
           THEN loc' = [loc EXCEPT !.cpuPercent = r.v, !.percentErr = NoErr]
                /\ pc' = "cat stat"
           ELSE loc' = loc /\ pc' = "dumpsys cpuinfo"
        /\ aRet' = aRet

AfterCpuinfo(res) ==
    LET r == IF res.err # NoErr THEN [v |-> Num(0), err |-> res.err]
             ELSE parseDumpsysCPU(res.out, opts.package)
    IN  /\ loc' = [loc EXCEPT !.cpuPercent = r.v, !.percentErr = r.err]
        /\ pc' = "cat stat"
        /\ aRet' = aRet

\* androidCPUTime, then the end of collectCPUMetrics and of Run
AfterStat(res) ==
    LET t == IF res.err # NoErr THEN [v |-> Num(0), err |-> Wrap("read proc stat", res.err)]
             ELSE parseProcStat(res.out)
        r == collectCPUResult(loc.cpuPercent, loc.percentErr, t.v, t.err)
    IN  /\ loc' = [loc EXCEPT !.cpuTimeMs = t.v, !.timeErr = t.err, !.cpuErr = r.err,
                              !.am = ApplyCPU(loc.am, r)]
        /\ ReturnA(ApplyCPU(loc.am, r), NoErr)

-----------------------------------------------------------------------------
(* ios.Run                                                                   *)

\* the check at the head of ios.Run
IOSConfigError(o) ==
    IF o.bundle = <<>> THEN Err("errors.New", "ios bundle id is required") ELSE NoErr

ReturnI(metrics, err) ==
    /\ iRet' = [returned |-> TRUE, metrics |-> metrics, err |-> err]
    /\ pc' = "i_return"

IOSRunEnter ==
    /\ pc = "i_enter"
    /\ IF IOSConfigError(opts) # NoErr
       THEN ReturnI(NilIOSMetrics, IOSConfigError(opts))
       ELSE pc' = "simctl list" /\ iRet' = iRet
    /\ loc' = ZeroLoc
    /\ UNCHANGED <<cmd, opts, expired, proc, spawned, lastRun, aRet, printed, saved,
                   cmdErr, parseVars>>

\* listSimctlDevices: the error it returns
listSimctlError(res) ==
    IF res.err # NoErr THEN Wrap("list simulators", res.err)
    ELSE IF ~res.out.json THEN Err("*json.SyntaxError", "decode simctl json")
    ELSE NoErr

\* resolveDeviceMetadata and the check of the device id in Run
AfterList(res) ==
    \E r \in resolveDeviceMetadata(res.out.devices, listSimctlError(res), opts.iDevice) :
        IF r.err # NoErr THEN ReturnI(NilIOSMetrics, r.err) /\ loc' = loc
        ELSE IF r.meta.ID = ""
        THEN ReturnI(NilIOSMetrics, Err("errors.New", "no booted simulator found"))
             /\ loc' = loc
        ELSE loc' = [loc EXCEPT !.meta = r.meta] /\ pc' = "simctl launch" /\ iRet' = iRet

\* time.Since(start) of the launch, in milliseconds
LaunchElapsedMs == {Num(350)}

\* cmd.CombinedOutput() of the launch returned
AfterLaunchI(res) ==
    IF res.err # NoErr
    THEN ReturnI(NilIOSMetrics, Wrap("run xcrun", res.err)) /\ loc' = loc
    ELSE \E elapsed \in LaunchElapsedMs :
            /\ loc' = [loc EXCEPT
                         !.im = [NilIOSMetrics EXCEPT
                                    !.nil = FALSE,
                                    !.Component = Component,
                                    !.BundleID = opts.bundle,
                                    !.RenderTimeMs = elapsed,
                                    !.Command = "xcrun simctl launch",
                                    !.Device = loc.meta]]
            /\ pc' = "memory_usage"
            /\ iRet' = iRet

\* collectMemoryUsage, given how `memory_usage` ended
collectMemoryUsageI(res) ==
    IF res.err # NoErr THEN [v |-> Num(0), err |-> Wrap("memory_usage", res.err)]
    ELSE parseIOSMemoryOutput(res.out)

AfterMemoryI(res) ==
    LET r == collectMemoryUsageI(res)
    IN  /\ loc' = IF r.err = NoErr
                  THEN [loc EXCEPT !.memErr = r.err, !.im.MemoryMB = r.v]
                  ELSE [loc EXCEPT !.memErr = r.err]
        /\ pc' = "launchctl list"
        /\ iRet' = iRet

\* collectIOSCPUMetrics returned an error
CPUStepFailsI(err) ==
    /\ loc' = [loc EXCEPT !.cpuErr = err]
    /\ ReturnI(loc.im, NoErr)

\* resolveIOSPID
AfterLaunchctl(res) ==
    LET r == ScanLaunchctlForPID(res.out, opts.bundle)
    IN  IF res.err # NoErr THEN CPUStepFailsI(Wrap("launchctl list", res.err))
        ELSE IF r.err # NoErr THEN CPUStepFailsI(r.err)
        ELSE loc' = [loc EXCEPT !.pid = r.pid] /\ pc' = "simctl ps" /\ iRet' = iRet

\* iosProcessMetrics, then the end of collectIOSCPUMetrics and of Run
iosProcessMetrics(res, pid) ==
    IF res.err # NoErr
    THEN [percent |-> Num(0), ms |-> Num(0), err |-> Wrap("ps metrics", res.err)]
    ELSE parseIOSPSMetrics(res.out, pid)

\* collectIOSCPUMetrics returned r; the end of Run
EndIOSCPU(r) ==
    IF r.err # NoErr THEN CPUStepFailsI(r.err)
    ELSE /\ loc' = [loc EXCEPT !.cpuPercent = r.percent, !.cpuTimeMs = r.ms,
                               !.im = ApplyCPU(loc.im, r)]
         /\ ReturnI(ApplyCPU(loc.im, r), NoErr)

AfterIOSPS(res) == EndIOSCPU(iosProcessMetrics(res, loc.pid))

-----------------------------------------------------------------------------
(* The commands: newAndroidCmd, newIOSCmd, newAllCmd.                        *)

\* time.ParseDuration on the values of --timeout the model draws from
ParseDuration(t) ==
    CASE t = "60s" -> [ok |-> TRUE, dur |-> 60]
      [] t = "0s"  -> [ok |-> TRUE, dur |-> 0]
      [] OTHER     -> [ok |-> FALSE, dur |-> 0]

\* commandContext: whether the context carries a deadline, and the error
commandContext(t) ==
    IF t = "" THEN [deadline |-> FALSE, err |-> NoErr]
    ELSE IF ~ParseDuration(t).ok
    THEN [deadline |-> FALSE, err |-> Err("fmt.Errorf", "invalid timeout")]
    ELSE [deadline |-> ParseDuration(t).dur > 0, err |-> NoErr]

\* where newAllCmd goes on after the Android part
AfterAndroidPart == IF opts.bundle # <<>> THEN "i_enter" ELSE "all_check"

CommandStart ==
    /\ pc = "start"
    /\ IF commandContext(opts.timeout).err # NoErr
       THEN cmdErr' = commandContext(opts.timeout).err /\ pc' = "done"
       ELSE /\ cmdErr' = cmdErr
            /\ pc' = CASE cmd = "android" -> "a_enter"
                       [] cmd = "ios"     -> "i_enter"
                       [] OTHER -> IF opts.package # <<>> \/ opts.activity # <<>>
                                   THEN "a_enter" ELSE AfterAndroidPart
    /\ UNCHANGED <<cmd, opts, expired, proc, spawned, lastRun, loc, aRet, iRet, printed,
                   saved, parseVars>>

\* the deadline of the command context passes while android.Run or ios.Run is
\* being executed (the context is used nowhere else)
Expire ==
    /\ pc \in Probes \cup {"a_enter", "i_enter"}
    /\ commandContext(opts.timeout).deadline
    /\ ~expired
    /\ expired' = TRUE
    /\ UNCHANGED <<cmd, opts, pc, proc, spawned, lastRun, loc, aRet, iRet, printed, saved,
                   cmdErr, parseVars>>

\* (A variant of the all command that goes on to iOS after a failed Android run.)
AndroidReturnedGoesOn ==
    /\ pc = "a_return"
    /\ IF aRet.err # NoErr /\ cmd = "android"
       THEN cmdErr' = aRet.err /\ pc' = "done"
       ELSE cmdErr' = cmdErr /\ pc' = IF cmd = "android" THEN "print" ELSE AfterAndroidPart
    /\ loc' = ZeroLoc
    /\ UNCHANGED <<cmd, opts, expired, proc, spawned, lastRun, aRet, iRet, printed,
                   saved, parseVars>>

\* metrics, err := android.Run(ctx, cfg); if err != nil { return err }
AndroidReturned ==
    /\ pc = "a_return"
    /\ IF aRet.err # NoErr
       THEN cmdErr' = aRet.err /\ pc' = "done"
       ELSE cmdErr' = cmdErr /\ pc' = IF cmd = "android" THEN "print" ELSE AfterAndroidPart
    /\ loc' = ZeroLoc
    /\ UNCHANGED <<cmd, opts, expired, proc, spawned, lastRun, aRet, iRet, printed,
                   saved, parseVars>>

\* metrics, err := ios.Run(ctx, cfg); if err != nil { return err }
IOSReturned ==
    /\ pc = "i_return"
    /\ IF iRet.err # NoErr
       THEN cmdErr' = iRet.err /\ pc' = "done"
       ELSE cmdErr' = cmdErr /\ pc' = IF cmd = "ios" THEN "print" ELSE "all_check"
    /\ loc' = ZeroLoc
    /\ UNCHANGED <<cmd, opts, expired, proc, spawned, lastRun, aRet, iRet, printed,
                   saved, parseVars>>

\* the report.Result of the command
BuildResult ==
    [nil |-> FALSE, Component |-> Component, Android |-> aRet.metrics,
     IOS |-> iRet.metrics, CLICommand |-> "designbench " \o cmd]

\* (A variant that goes on to the summary without the check.)
AllCheckNone ==
    /\ pc = "all_check"
    /\ cmdErr' = cmdErr
    /\ pc' = "print"
    /\ UNCHANGED <<cmd, opts, expired, proc, spawned, lastRun, loc, aRet, iRet, printed,
                   saved, parseVars>>

\* newAllCmd: if result.Android == nil && result.IOS == nil
AllCheck ==
    /\ pc = "all_check"
    /\ IF aRet.metrics.nil /\ iRet.metrics.nil
       THEN cmdErr' = Err("fmt.Errorf", "provide Android and/or iOS configuration to run")
            /\ pc' = "done"
       ELSE cmdErr' = cmdErr /\ pc' = "print"
    /\ UNCHANGED <<cmd, opts, expired, proc, spawned, lastRun, loc, aRet, iRet, printed,
                   saved, parseVars>>

\* fmt.Print(report.FormatSummary(result))
PrintSummary ==
    /\ pc = "print"
    /\ printed' = BuildResult
    /\ pc' = "resolve_out"
    /\ UNCHANGED <<cmd, opts, expired, proc, spawned, lastRun, loc, aRet, iRet, saved,
                   cmdErr, parseVars>>

\* resolveOutputFile: the directory is there or can be made, or not
ResolveOutputFile ==
    /\ pc = "resolve_out"
    /\ \E ok \in BOOLEAN :
          IF ok THEN pc' = "save" /\ cmdErr' = cmdErr
          ELSE pc' = "done" /\ cmdErr' = Err("fmt.Errorf", "create reports dir")
    /\ UNCHANGED <<cmd, opts, expired, proc, spawned, lastRun, loc, aRet, iRet, printed,
                   saved, parseVars>>

\* report.SaveJSON: the file is written, or not
SaveJSON ==
    /\ pc = "save"
    /\ \E ok \in BOOLEAN :
          IF ok THEN saved' = BuildResult /\ cmdErr' = cmdErr
          ELSE saved' = saved /\ cmdErr' = Err("fmt.Errorf", "create report file")
    /\ pc' = "done"
    /\ UNCHANGED <<cmd, opts, expired, proc, spawned, lastRun, loc, aRet, iRet, printed,
                   parseVars>>

\* the statements that follow the return of the process invoker for process p
After(p, res) ==
    CASE p = "am start"        -> AfterLaunchA(res) /\ iRet' = iRet
      [] p = "getprop model"   -> AfterModel(res) /\ iRet' = iRet
      [] p = "getprop release" -> AfterRelease(res) /\ iRet' = iRet
      [] p = "wm size"         -> AfterSize(res) /\ iRet' = iRet
      [] p = "dumpsys meminfo" -> AfterMemoryA(res) /\ iRet' = iRet
      [] p = "pidof"           -> AfterPidof(res) /\ iRet' = iRet
      [] p = "ps"              -> AfterPS(res) /\ iRet' = iRet
      [] p = "top"             -> AfterTop(res) /\ iRet' = iRet
      [] p = "dumpsys cpuinfo" -> AfterCpuinfo(res) /\ iRet' = iRet
      [] p = "cat stat"        -> AfterStat(res) /\ iRet' = iRet
      [] p = "simctl list"     -> AfterList(res) /\ aRet' = aRet
      [] p = "simctl launch"   -> AfterLaunchI(res) /\ aRet' = aRet
      [] p = "memory_usage"    -> AfterMemoryI(res) /\ aRet' = aRet
      [] p = "launchctl list"  -> AfterLaunchctl(res) /\ aRet' = aRet
      [] p = "simctl ps"       -> AfterIOSPS(res) /\ aRet' = aRet

\* (A variant that starts the process without waiting for the one running.)
StartProcessUnawaited ==
    /\ pc \in Probes
    /\ ~expired
    /\ proc' = pc
    /\ spawned' = Append(spawned, pc)
    /\ UNCHANGED <<cmd, opts, pc, expired, lastRun, loc, aRet, iRet, printed, saved,
                   cmdErr, parseVars>>

\* (A variant in which each probe runs under a deadline of its own.)
StartProcessOwnDeadline ==
    /\ pc \in Probes
    /\ proc = NoProc
    /\ proc' = pc
    /\ spawned' = Append(spawned, pc)
    /\ UNCHANGED <<cmd, opts, pc, expired, lastRun, loc, aRet, iRet, printed, saved,
                   cmdErr, parseVars>>

\* cmd.Start(): the context is not done and the process starts
StartProcess ==
    /\ pc \in Probes
    /\ proc = NoProc
    /\ ~expired
    /\ proc' = pc
    /\ spawned' = Append(spawned, pc)
    /\ UNCHANGED <<cmd, opts, pc, expired, lastRun, loc, aRet, iRet, printed, saved,
                   cmdErr, parseVars>>

\* cmd.Start() fails: nothing is started, the invoker returns the error
StartFails ==
    /\ pc \in Probes
    /\ proc = NoProc
    /\ \E res \in StartFailures(pc, expired) :
          /\ lastRun' = [proc |-> pc, cause |-> res.cause, err |-> res.err, out |-> res.out]
          /\ After(pc, res)
    /\ UNCHANGED <<cmd, opts, expired, proc, spawned, printed, saved, cmdErr, parseVars>>

\* cmd.Wait(): the running process ends, the invoker returns
ProcessEnds ==
    /\ proc # NoProc
    /\ \E res \in ProcessResults(proc, expired) :
          /\ lastRun' = [proc |-> proc, cause |-> res.cause, err |-> res.err, out |-> res.out]
          /\ After(proc, res)
    /\ proc' = NoProc
    /\ UNCHANGED <<cmd, opts, expired, spawned, printed, saved, cmdErr, parseVars>>

-----------------------------------------------------------------------------
(* The invocations.                                                          *)

Timeouts == {"60s", "0s", "", "1m0"}

AndroidOpts ==
    {[NoOpts EXCEPT !.package = p, !.activity = a, !.aDevice = d, !.timeout = t] :
        p \in {<<>>, Pkg}, a \in {<<>>, Act}, d \in {"", "emulator-5554"}, t \in Timeouts}

IOSOpts ==
    {[NoOpts EXCEPT !.bundle = b, !.iDevice = d, !.timeout = t] :
        b \in {<<>>, Bundle}, d \in {"", "SIM-1", "PHONE-1"}, t \in Timeouts}

AllOpts ==
    {[NoOpts EXCEPT !.package = p, !.activity = a, !.bundle = b, !.timeout = "60s"] :
        p \in {<<>>, Pkg}, a \in {<<>>, Act}, b \in {<<>>, Bundle}}

ParseIdle ==
    /\ input = <<>>
    /\ scanned = <<>>
    /\ result = NoErr
    /\ done = FALSE

CmdIdle ==
    /\ opts = NoOpts
    /\ pc = "idle"
    /\ expired = FALSE
    /\ proc = NoProc
    /\ spawned = <<>>
    /\ lastRun = NoRun
    /\ loc = ZeroLoc
    /\ aRet = NotReturnedA
    /\ iRet = NotReturnedI
    /\ printed = NoResult
    /\ saved = NoResult
    /\ cmdErr = NoErr

Init ==
    /\ cmd \in {"android", "ios", "all"}
    /\ opts \in CASE cmd = "android" -> AndroidOpts
                  [] cmd = "ios"     -> IOSOpts
                  [] OTHER           -> AllOpts
    /\ pc = "start"
    /\ expired = FALSE
    /\ proc = NoProc
    /\ spawned = <<>>
    /\ lastRun = NoRun
    /\ loc = ZeroLoc
    /\ aRet = NotReturnedA
    /\ iRet = NotReturnedI
    /\ printed = NoResult
    /\ saved = NoResult
    /\ cmdErr = NoErr
    /\ ParseIdle

Next ==
    \/ CommandStart
    \/ Expire
    \/ AndroidRunEnter
    \/ IOSRunEnter
    \/ StartProcess
    \/ StartFails
    \/ ProcessEnds
    \/ AndroidReturned
    \/ IOSReturned
    \/ AllCheck
    \/ PrintSummary
    \/ ResolveOutputFile
    \/ SaveJSON

Spec == Init /\ [][Next]_vars

-----------------------------------------------------------------------------
(* parseLaunchOutput, one line of the scanner loop per step.                 *)

MaxLaunchLines == 4

LineThisTimeSpaced == <<" "," ","T","h","i","s","T","i","m","e"," ",":"," "," ","2","0",".","5"," "," ">>
LineThisTimeBad == <<"T","h","i","s","T","i","m","e",":"," ","a","b","c">>

\* the lines the launch outputs are made of
LaunchLines ==
    {LineThisTime8, LineThisTimeSpaced, LineTotalTime12, LineWaitTime14,
     LineLaunchStateCOLD, LineThisTimeBad, LineStatusOk, LineComplete}

RECURSIVE SeqsUpTo(_, _)
SeqsUpTo(S, n) ==
    IF n = 0 THEN {<<>>}
    ELSE SeqsUpTo(S, n - 1) \cup {Append(q, x) : q \in {r \in SeqsUpTo(S, n - 1) : Len(r) = n - 1}, x \in S}

LaunchInputs == SeqsUpTo(LaunchLines, MaxLaunchLines) \cup {MockLaunchOutput}

InitLaunch ==
    /\ cmd = "parseLaunchOutput"
    /\ CmdIdle
    /\ input \in LaunchInputs
    /\ scanned = <<>>
    /\ result = ZeroAndroidMetrics
    /\ done = FALSE

\* for scanner.Scan() { ... }: the next line is read and handled
LaunchScan ==
    /\ cmd = "parseLaunchOutput"
    /\ ~done
    /\ Len(scanned) < Len(input)
    /\ scanned' = Append(scanned, input[Len(scanned) + 1])
    /\ result' = LaunchLine(result, input[Len(scanned) + 1])
    /\ UNCHANGED <<cmdVars, input, done>>

\* return result
LaunchReturn ==
    /\ cmd = "parseLaunchOutput"
    /\ ~done
    /\ Len(scanned) = Len(input)
    /\ done' = TRUE
    /\ UNCHANGED <<cmdVars, input, scanned, result>>

NextLaunch ==
    \/ LaunchScan
    \/ LaunchReturn

SpecLaunch == InitLaunch /\ [][NextLaunch]_vars

-----------------------------------------------------------------------------
(* parseMeminfoForMB, one line of the scanner loop per step.                 *)

MaxMeminfoLines == 3

LineTOTAL1536 == <<" ","T","O","T","A","L"," ","1","5","3","6","k","B"," ","5","1","2">>
LineTotalPSS8192 == <<" ","T","O","T","A","L"," ","P","S","S",":"," "," "," "," "," ","8","1","9","2"," "," "," "," "," "," "," "," "," "," "," "," ","T","O","T","A","L"," ","R","S","S",":"," "," "," "," ","1","6","3","8","4"," "," "," "," "," "," "," ","T","O","T","A","L"," ","S","W","A","P"," ","P","S","S",":"," "," "," "," "," "," ","1","0","6">>
LineTotalBare == <<"T","O","T","A","L",":">>

\* the lines the meminfo dumps are made of
MeminfoLines ==
    {LineTOTAL4096, LineTOTAL1536, LineTotalPSS8192, LineTotalBare, LineDalvik,
     LineUptime, <<>>}

MeminfoInputs == SeqsUpTo(MeminfoLines, MaxMeminfoLines) \cup {MockMeminfo}

InitMeminfo ==
    /\ cmd = "parseMeminfoForMB"
    /\ CmdIdle
    /\ input \in MeminfoInputs
    /\ scanned = <<>>
    /\ result = [v |-> Num(0), err |-> NoErr]
    /\ done = FALSE

\* the value parseMeminfoForMB returns from inside the loop
MeminfoFound(r) ==
    IF r.found
    THEN result' = [v |-> r.v, err |-> NoErr] /\ done' = TRUE
    ELSE UNCHANGED <<result, done>>

\* for scanner.Scan() { ... }: the next line is read; a TOTAL line with a
\* number in it ends the function
MeminfoScan ==
    /\ cmd = "parseMeminfoForMB"
    /\ ~done
    /\ Len(scanned) < Len(input)
    /\ scanned' = Append(scanned, input[Len(scanned) + 1])
    /\ MeminfoFound(MeminfoLine(input[Len(scanned) + 1]))
    /\ UNCHANGED <<cmdVars, input>>

\* the lines are used up: return 0, errors.New("unable to locate ...")
MeminfoReturn ==
    /\ cmd = "parseMeminfoForMB"
    /\ ~done
    /\ Len(scanned) = Len(input)
    /\ result' = [v |-> Num(0), err |-> ErrNoTotal]
    /\ done' = TRUE
    /\ UNCHANGED <<cmdVars, input, scanned>>

NextMeminfo ==
    \/ MeminfoScan
    \/ MeminfoReturn

SpecMeminfo == InitMeminfo /\ [][NextMeminfo]_vars

-----------------------------------------------------------------------------
(* Properties of android.Run, ios.Run and the commands (Spec).               *)

\* the probes of the CPU step of each platform
CPUProbesA == {"pidof", "ps", "top", "dumpsys cpuinfo", "cat stat"}

CPUProbesI == {"launchctl list", "simctl ps"}

\* Once the launch has succeeded (the metrics record of Run exists), Run
\* returns that record and no error.
C1_ReturnsMetrics ==
    /\ (pc = "a_return" /\ ~loc.am.nil) => (aRet.err = NoErr /\ ~aRet.metrics.nil)
    /\ (pc = "i_return" /\ ~loc.im.nil) => (iRet.err = NoErr /\ ~iRet.metrics.nil)

\* The memory step always hands on to the CPU step; it changes MemoryMB only,
\* and leaves it unset when the probe failed.
C1_MemoryStep ==
    /\ (pc = "dumpsys meminfo" /\ pc' # pc) =>
          /\ pc' = "pidof"
          /\ loc'.am = [loc.am EXCEPT !.MemoryMB = IF loc'.memErr = NoErr
                                                   THEN loc'.am.MemoryMB ELSE Num(0)]
    /\ (pc = "memory_usage" /\ pc' # pc) =>
          /\ pc' = "launchctl list"
          /\ loc'.im = [loc.im EXCEPT !.MemoryMB = IF loc'.memErr = NoErr
                                                   THEN loc'.im.MemoryMB ELSE Num(0)]

\* The CPU step always ends in the return of the record with no error; it
\* changes CPUPercent and CPUTimeMs only, and leaves both unset when it failed.
C1_CPUStep ==
    /\ (pc \in CPUProbesA /\ pc' \in CPUProbesA) => loc'.am = loc.am
    /\ (pc \in CPUProbesA /\ pc' \notin CPUProbesA) =>
          /\ pc' = "a_return"
          /\ aRet'.err = NoErr
          /\ aRet'.metrics =
                [loc.am EXCEPT !.CPUPercent = IF loc'.cpuErr = NoErr
                                              THEN aRet'.metrics.CPUPercent ELSE Num(0),
                               !.CPUTimeMs = IF loc'.cpuErr = NoErr
                                             THEN aRet'.metrics.CPUTimeMs ELSE Num(0)]
    /\ (pc \in CPUProbesI /\ pc' \in CPUProbesI) => loc'.im = loc.im
    /\ (pc \in CPUProbesI /\ pc' \notin CPUProbesI) =>
          /\ pc' = "i_return"
          /\ iRet'.err = NoErr
          /\ iRet'.metrics =
                [loc.im EXCEPT !.CPUPercent = IF loc'.cpuErr = NoErr
                                              THEN iRet'.metrics.CPUPercent ELSE Num(0),
                               !.CPUTimeMs = IF loc'.cpuErr = NoErr
                                             THEN iRet'.metrics.CPUTimeMs ELSE Num(0)]

\* C1: for android.Run and ios.Run, once the launch command has succeeded Run
\* returns a metrics record and no error whatever the memory probe and the CPU
\* probe do; a probe that failed leaves its own field unset (MemoryMB, or
\* CPUPercent and CPUTimeMs) and no step changes a field that is not its own.
C1_OptionalProbesNeverAbort ==
    [](C1_ReturnsMetrics) /\ [][C1_MemoryStep /\ C1_CPUStep]_vars

\* C1, the case reached: the memory probe failed, the CPU probes succeeded, and
\* android.Run returned the record with the launch timings and the CPU fields.
C1_Witness ==
    /\ pc = "a_return"
    /\ loc.memErr # NoErr
    /\ loc.pid # <<>>
    /\ loc.cpuErr = NoErr
    /\ aRet.err = NoErr
    /\ aRet.metrics.MemoryMB = Num(0)
    /\ aRet.metrics.CPUPercent = Num(10)
    /\ aRet.metrics.CPUTimeMs = Num(1500)
    /\ aRet.metrics.FirstFrameMs = Num(8)

\* C2: with an empty Android package or activity, or an empty iOS bundle id,
\* the Run of that platform starts no adb / xcrun process at all, and when it
\* has returned it has returned an error and no metrics.
C2_ValidationPrecedesSpawn ==
    /\ (opts.package = <<>> \/ opts.activity = <<>>) =>
          /\ pc \notin AndroidProbes
          /\ proc \notin AndroidProbes
          /\ Range(spawned) \cap AndroidProbes = {}
          /\ aRet.returned => (aRet.err # NoErr /\ aRet.metrics.nil)
    /\ opts.bundle = <<>> =>
          /\ pc \notin IOSProbes
          /\ proc \notin IOSProbes
          /\ Range(spawned) \cap IOSProbes = {}
          /\ iRet.returned => (iRet.err # NoErr /\ iRet.metrics.nil)

\* C2, the case reached: android.Run has returned the error for a missing
\* activity and nothing was spawned.
C2_Witness ==
    /\ pc = "a_return"
    /\ opts.package # <<>>
    /\ opts.activity = <<>>
    /\ aRet.returned
    /\ aRet.err # NoErr
    /\ spawned = <<>>

\* C3: when the launch command cannot be started or exits non-zero, Run has
\* returned an error and no metrics, no probe after the launch has been
\* spawned, and the command ends with that error, nothing printed and nothing
\* saved.
C3_LaunchFailureIsFatal ==
    /\ (lastRun.proc = "am start" /\ lastRun.cause \in {"nostart", "exit"}) =>
          /\ aRet.returned /\ aRet.err # NoErr /\ aRet.metrics.nil
          /\ Range(spawned) \cap ((AndroidProbes \ {"am start"}) \cup IOSProbes) = {}
          /\ pc \in {"a_return", "done"}
          /\ pc = "done" => cmdErr = aRet.err
          /\ printed = NoResult /\ saved = NoResult
    /\ (lastRun.proc = "simctl launch" /\ lastRun.cause \in {"nostart", "exit"}) =>
          /\ iRet.returned /\ iRet.err # NoErr /\ iRet.metrics.nil
          /\ Range(spawned) \cap {"memory_usage", "launchctl list", "simctl ps"} = {}
          /\ pc \in {"i_return", "done"}
          /\ pc = "done" => cmdErr = iRet.err
          /\ printed = NoResult /\ saved = NoResult

\* C3, the case reached: `am start` exited non-zero and the command is over
\* with the error.
C3_Witness ==
    /\ pc = "done"
    /\ lastRun.proc = "am start"
    /\ lastRun.cause = "exit"
    /\ spawned = <<"am start">>
    /\ cmdErr # NoErr
    /\ printed = NoResult

\* the ways the deadline makes the process invoker fail
DeadlineCauses == {"killed", "late", "deadline"}

\* C4: when the deadline has made a probe of a platform run fail (the process
\* was killed, or was not started because the context was done), that Run
\* returns an error and no metrics record, and no record is printed or saved.
C4_DeadlineAbortsCollection ==
    /\ (pc = "a_return" /\ lastRun.cause \in DeadlineCauses) =>
          (aRet.err # NoErr /\ aRet.metrics.nil)
    /\ (pc = "i_return" /\ lastRun.cause \in DeadlineCauses) =>
          (iRet.err # NoErr /\ iRet.metrics.nil)
    /\ lastRun.cause \in DeadlineCauses => (printed = NoResult /\ saved = NoResult)

\* C5: the error the process invoker returns for a process killed by the
\* deadline is of another kind than the error for a process that exited
\* non-zero.
C5_TimeoutDistinctFromExit ==
    lastRun.cause = "killed" => lastRun.err.kind # ErrExit.kind

-----------------------------------------------------------------------------
(* Properties of parseLaunchOutput (SpecLaunch).                             *)

\* the position of the last line of q that is in S, 0 when there is none
LastIndexIn(q, S) ==
    IF \E i \in DOMAIN q : q[i] \in S
    THEN CHOOSE i \in DOMAIN q : q[i] \in S /\ \A j \in DOMAIN q : q[j] \in S => j <= i
    ELSE 0

\* the number a well-formed ThisTime line of LaunchLines states
ThisTimeStated(line) == IF line = LineThisTime8 THEN Num(8) ELSE Frac(41, 2)

\* C7: parseLaunchOutput takes FirstFrameMs from the ThisTime line, TotalTimeMs
\* from the TotalTime line, WaitTimeMs from the WaitTime line and LaunchState
\* from the LaunchState line, wherever the lines stand and whatever other lines
\* surround them; the output of the mock gives 8, 12, 14 and COLD.
C7_LaunchFieldsFromKeys ==
    (cmd = "parseLaunchOutput" /\ done) =>
        /\ LastIndexIn(input, {LineThisTime8, LineThisTimeSpaced}) > 0 =>
              result.FirstFrameMs =
                 ThisTimeStated(input[LastIndexIn(input, {LineThisTime8, LineThisTimeSpaced})])
        /\ LineTotalTime12 \in Range(input) => result.TotalTimeMs = Num(12)
        /\ LineWaitTime14 \in Range(input) => result.WaitTimeMs = Num(14)
        /\ LineLaunchStateCOLD \in Range(input) => result.LaunchState = W_COLD
        /\ input = MockLaunchOutput =>
              /\ result.FirstFrameMs = Num(8) /\ result.TotalTimeMs = Num(12)
              /\ result.WaitTimeMs = Num(14) /\ result.LaunchState = W_COLD

\* C7, the case reached: the four lines in the reverse of the mock's order.
C7_Witness ==
    /\ cmd = "parseLaunchOutput"
    /\ done
    /\ input = <<LineWaitTime14, LineTotalTime12, LineThisTime8, LineLaunchStateCOLD>>
    /\ result.FirstFrameMs = Num(8)
    /\ result.TotalTimeMs = Num(12)
    /\ result.WaitTimeMs = Num(14)
    /\ result.LaunchState = W_COLD

\* lines with an unrecognized key, without a colon, with a malformed number
IgnoredLaunchLines == {LineStatusOk, LineComplete, LineThisTimeBad}

\* C8: a line with an unrecognized key, a line without a colon and a timing
\* line whose value is not a number each leave every field of the result of
\* parseLaunchOutput as it was before the line.
C8_IgnoredLinesChangeNothing ==
    [][(/\ cmd = "parseLaunchOutput"
        /\ Len(scanned') = Len(scanned) + 1
        /\ scanned'[Len(scanned')] \in IgnoredLaunchLines) => result' = result]_vars

\* C8, the case reached: a malformed ThisTime line after a well-formed one; the
\* value 8 is still there.
C8_Witness ==
    /\ cmd = "parseLaunchOutput"
    /\ scanned = <<LineThisTime8, LineThisTimeBad>>
    /\ result.FirstFrameMs = Num(8)
    /\ result.TotalTimeMs = Num(0)

-----------------------------------------------------------------------------
(* Properties of parseMeminfoForMB (SpecMeminfo).                            *)

\* the lines of MeminfoLines with a TOTAL label and a number after it
NumberedTotalLines == {LineTOTAL4096, LineTOTAL1536, LineTotalPSS8192}

\* the kB figure a plain TOTAL line of MeminfoLines states first
TotalStatedKB(line) == IF line = LineTOTAL4096 THEN 4096 ELSE 1536

\* C9: for a dump whose TOTAL line states N kB first, parseMeminfoForMB
\* returns N/1024 and no error, the later numbers of the line being ignored;
\* the dump of the mock (TOTAL 4096 2048) gives 4.
C9_TotalOver1024 ==
    (cmd = "parseMeminfoForMB" /\ done) =>
        /\ \A line \in {LineTOTAL4096, LineTOTAL1536} :
              (Range(input) \cap NumberedTotalLines = {line}) =>
                  result = [v |-> Frac(TotalStatedKB(line), 1024), err |-> NoErr]
        /\ input = MockMeminfo => result = [v |-> Num(4), err |-> NoErr]

\* C9, the case reached: a dump with TOTAL 1536kB 512 gives 1.5 MB.
C9_Witness ==
    /\ cmd = "parseMeminfoForMB"
    /\ done
    /\ input = <<LineDalvik, LineTotalBare, LineTOTAL1536>>
    /\ result = [v |-> Frac(3, 2), err |-> NoErr]

\* C10: for a dump with a TOTAL PSS line and a plain TOTAL line, in either
\* order, parseMeminfoForMB returns the value of the TOTAL PSS line.
C10_TotalPSSPreferred ==
    (/\ cmd = "parseMeminfoForMB"
     /\ done
     /\ LineTotalPSS8192 \in Range(input)
     /\ Range(input) \cap {LineTOTAL4096, LineTOTAL1536} # {}) =>
        result = [v |-> Num(8), err |-> NoErr]

-----------------------------------------------------------------------------
(* The diagnostic parsers as functions of their input: one call per step.    *)

MaxProbeLines == 2
MaxStatFields == 17
MaxTimeParts == 4

\* adb shell top -b -n 1 -p <pid>
LineTopRowNoPercent == <<"4","2","4","2"," "," ","S"," "," ","c","o","m",".","e","x","a","m","p","l","e",".","a","p","p">>
LineTopRowOther == <<"1","7"," "," ","1","0","%"," "," ","s","y","s","t","e","m","_","s","e","r","v","e","r">>
LineTopRowBadPercent == <<"4","2","4","2"," "," ","n","/","a","%"," "," ","1","2",".","5","%"," "," ","c","o","m",".","e","x","a","m","p","l","e",".","a","p","p">>
TopLines ==
    {LineTasks, LineTopHeader, LineTopRow, LineTopRowNoPercent, LineTopRowOther,
     LineTopRowBadPercent, <<>>}

\* adb shell dumpsys cpuinfo
LineCpuinfoRowOther == <<"5","%"," ","1","/","i","n","i","t">>
LineCpuinfoRowNoNumber == <<"c","o","m",".","e","x","a","m","p","l","e",".","a","p","p",":"," ","1","0","%"," ","u","s","e","r">>
LineCpuinfoRowZero == <<"0","%"," ","4","2","4","2","/","c","o","m",".","e","x","a","m","p","l","e",".","a","p","p">>
CpuinfoLines ==
    {LineLoad, LineCpuinfoRow, LineCpuinfoRowOther, LineCpuinfoRowNoNumber,
     LineCpuinfoRowZero, <<>>}

\* xcrun simctl spawn <device> memory_usage -b <bundle>
LineFootprintKB == <<"P","h","y","s","i","c","a","l"," ","f","o","o","t","p","r","i","n","t"," ","(","p","e","a","k",")",":"," "," ","5","3","5","0","0"," ","K","B">>
LineFootprintUnknown == <<"P","h","y","s","i","c","a","l"," ","f","o","o","t","p","r","i","n","t",":"," ","u","n","k","n","o","w","n">>
LineFootprintBytes == <<"P","H","Y","S","I","C","A","L"," ","F","O","O","T","P","R","I","N","T",":"," ","2","0","9","7","1","5","2"," ","b","y","t","e","s">>
LineFootprintGiB == <<"p","h","y","s","i","c","a","l"," ","f","o","o","t","p","r","i","n","t",":"," ","1",".","5","G","i","B">>
LineFootprintB == <<"P","h","y","s","i","c","a","l"," ","f","o","o","t","p","r","i","n","t",":"," ","1","0","4","8","5","7","6","B">>
LineFootprintKiB == <<"P","h","y","s","i","c","a","l"," ","f","o","o","t","p","r","i","n","t",":"," ","5","1","2"," ","k","i","b">>
LineFootprintMiB == <<"P","h","y","s","i","c","a","l"," ","f","o","o","t","p","r","i","n","t"," ","2",":"," ","7"," ","M","i","B">>
LineFootprintGB == <<"P","h","y","s","i","c","a","l"," ","f","o","o","t","p","r","i","n","t",":"," ","2"," ","g","b">>
LineVirtualSize == <<"V","i","r","t","u","a","l"," ","s","i","z","e",":"," ","4"," ","G","B">>
IOSMemoryLines ==
    {LineFootprint, LineFootprintKB, LineFootprintBytes, LineFootprintB,
     LineFootprintKiB, LineFootprintMiB, LineFootprintGB, LineFootprintGiB,
     LineFootprintUnknown, LineNoFootprint, LineVirtualSize, <<>>}

\* xcrun simctl spawn <device> launchctl list
LineLaunchctlDash == <<"-"," ","0"," ","U","I","K","i","t","A","p","p","l","i","c","a","t","i","o","n",":","c","o","m",".","e","x","a","m","p","l","e",".","i","o","s","[","1","f","2","e","]">>
LineLaunchctlShort == <<"4","2","4","2"," ","c","o","m",".","e","x","a","m","p","l","e",".","i","o","s">>
LineLaunchctlOther == <<"7","7"," ","0"," ","c","o","m",".","e","x","a","m","p","l","e",".","o","t","h","e","r">>
LaunchctlLines ==
    {LineLaunchctlHeader, LineLaunchctlRow, LineLaunchctlIdle, LineLaunchctlDash,
     LineLaunchctlShort, LineLaunchctlOther, <<>>}

\* xcrun simctl spawn <device> ps -o pid,pcpu,time -p <pid>
LineIOSPSRowOther == <<" "," "," ","1","7"," "," "," ","0",".","0"," "," "," ","0",":","0","0",".","1","0">>
LineIOSPSRowShort == <<" ","4","2","4","2"," "," "," ","1",".","5">>
LineIOSPSRowDays == <<" ","4","2","4","2"," "," ","1","2",".","0"," "," ","1","-","0","2",":","0","3",":","0","4">>
IOSPSLines ==
    {LineIOSPSHeader, LineIOSPSRow, LineIOSPSRowOther, LineIOSPSRowShort,
     LineIOSPSRowBadCPU, LineIOSPSRowBadTime, LineIOSPSRowDays, <<>>}

\* the content of /proc/<pid>/stat: fields separated by one space.  The first
\* thirteen fields and those after the fifteenth are as the mock prints them.
W_mock == <<"(","m","o","c","k",")">>
StatNumerals == {<<"1","0","0">>, <<"5","0">>, <<"0">>, <<"7",".","5">>, <<"x">>}
StatField(i, utime, stime) ==
    CASE i = 1  -> Line4242
      [] i = 2  -> W_mock
      [] i = 3  -> <<"S">>
      [] i = 14 -> utime
      [] i = 15 -> stime
      [] OTHER  -> <<"0">>
StatContents ==
    {[i \in 1..n |-> StatField(i, u, s)] :
        n \in 0..MaxStatFields, u \in StatNumerals, s \in StatNumerals}

\* the TIME column of ps: parts separated by ":", after an optional "<days>-"
TimeNumerals == {<<"0","2">>, <<"0","3">>, <<"0","4">>, <<"1",".","5">>, <<"x">>}
DayNumerals == {<<"1">>, <<"0">>, <<"x">>}
DarwinTimes ==
    {[days |-> d, parts |-> p] :
        d \in {<<>>} \cup DayNumerals,
        p \in {q \in SeqsUpTo(TimeNumerals, MaxTimeParts) : q # <<>>}}
DarwinText(t) ==
    (IF t.days = <<>> THEN <<>> ELSE t.days \o <<"-">>) \o Join(t.parts, <<":">>)

ParserNames ==
    {"parseMeminfoForMB", "parseAndroidTopCPU", "parseDumpsysCPU", "androidCPUTime",
     "parseIOSMemoryOutput", "resolveIOSPID", "parseIOSPSMetrics", "parseDarwinTime"}

\* the ps outputs are longer: a blank line, the header, a row of another
\* process, the row of the pid
MaxPSLines == 4

ParserInputs(name) ==
    CASE name = "parseMeminfoForMB"    -> SeqsUpTo(MeminfoLines, MaxProbeLines)
      [] name = "parseAndroidTopCPU"   -> SeqsUpTo(TopLines, MaxProbeLines)
      [] name = "parseDumpsysCPU"      -> SeqsUpTo(CpuinfoLines, MaxProbeLines)
      [] name = "androidCPUTime"       -> StatContents
      [] name = "parseIOSMemoryOutput" -> SeqsUpTo(IOSMemoryLines, MaxProbeLines)
      [] name = "resolveIOSPID"        -> SeqsUpTo(LaunchctlLines, MaxProbeLines)
      [] name = "parseIOSPSMetrics"    -> SeqsUpTo(IOSPSLines, MaxPSLines)
      [] name = "parseDarwinTime"      -> DarwinTimes

InitParsers ==
    /\ cmd \in ParserNames
    /\ CmdIdle
    /\ input \in ParserInputs(cmd)
    /\ scanned = <<>>
    /\ result = NoErr
    /\ done = FALSE

\* the parser named by cmd returns r
Returns(name, r) ==
    /\ cmd = name
    /\ ~done
    /\ result' = r
    /\ done' = TRUE
    /\ UNCHANGED <<cmdVars, input, scanned>>

CallParseMeminfoForMB == Returns("parseMeminfoForMB", parseMeminfoForMB(input))

CallParseAndroidTopCPU == Returns("parseAndroidTopCPU", parseAndroidTopCPU(input, Line4242))

CallParseDumpsysCPU == Returns("parseDumpsysCPU", parseDumpsysCPU(input, Pkg))

\* androidCPUTime once `cat /proc/<pid>/stat` has printed the content
CallAndroidCPUTime == Returns("androidCPUTime", parseProcStat(<<Join(input, <<" ">>)>>))

CallParseIOSMemoryOutput == Returns("parseIOSMemoryOutput", parseIOSMemoryOutput(input))

\* resolveIOSPID once `launchctl list` has printed its lines
CallResolveIOSPID == Returns("resolveIOSPID", ScanLaunchctlForPID(input, Bundle))

CallParseIOSPSMetrics == Returns("parseIOSPSMetrics", parseIOSPSMetrics(input, Line4242))

CallParseDarwinTime == Returns("parseDarwinTime", parseDarwinTime(DarwinText(input)))

NextParsers ==
    \/ CallParseMeminfoForMB
    \/ CallParseAndroidTopCPU
    \/ CallParseDumpsysCPU
    \/ CallAndroidCPUTime
    \/ CallParseIOSMemoryOutput
    \/ CallResolveIOSPID
    \/ CallParseIOSPSMetrics
    \/ CallParseDarwinTime

SpecParsers == InitParsers /\ [][NextParsers]_vars

-----------------------------------------------------------------------------
(* Properties of the diagnostic parsers (SpecParsers).                       *)

\* the lines of each tool's output that do not carry what its parser looks for
MeminfoLinesWithoutTotal == {LineTotalBare, LineDalvik, LineUptime, <<>>}
TopLinesWithoutPercent ==
    {LineTasks, LineTopHeader, LineTopRowNoPercent, LineTopRowOther, <<>>}
CpuinfoLinesWithoutPackage ==
    {LineLoad, LineCpuinfoRowOther, LineCpuinfoRowNoNumber, <<>>}
IOSMemoryLinesWithoutFootprint ==
    {LineFootprintUnknown, LineNoFootprint, LineVirtualSize, <<>>}
LaunchctlLinesWithoutPid ==
    {LineLaunchctlHeader, LineLaunchctlIdle, LineLaunchctlDash, LineLaunchctlShort,
     LineLaunchctlOther, <<>>}
IOSPSLinesWithoutRow ==
    {LineIOSPSHeader, LineIOSPSRowOther, LineIOSPSRowShort, <<>>}

\* the input of the parser lacks the line or field the parser looks for
LacksMarker(name, in) ==
    CASE name = "parseMeminfoForMB"    -> Range(in) \subseteq MeminfoLinesWithoutTotal
      [] name = "parseAndroidTopCPU"   -> Range(in) \subseteq TopLinesWithoutPercent
      [] name = "parseDumpsysCPU"      -> Range(in) \subseteq CpuinfoLinesWithoutPackage
      [] name = "androidCPUTime"       -> Len(in) < 15
      [] name = "parseIOSMemoryOutput" -> Range(in) \subseteq IOSMemoryLinesWithoutFootprint
      [] name = "resolveIOSPID"        -> Range(in) \subseteq LaunchctlLinesWithoutPid
      [] name = "parseIOSPSMetrics"    -> Range(in) \subseteq IOSPSLinesWithoutRow
      [] OTHER                         -> FALSE

\* the value part of what the parser returned is the zero value
ZeroValued(name, r) ==
    CASE name = "resolveIOSPID"     -> r.pid = <<>>
      [] name = "parseIOSPSMetrics" -> r.percent = Num(0) /\ r.ms = Num(0)
      [] OTHER                      -> r.v = Num(0)

\* C11: a diagnostic parser (Android meminfo, top, cpuinfo and /proc stat; iOS
\* memory footprint, launchctl pid and ps metrics) whose input lacks the line or
\* field it looks for, the empty input included, returns its not-found error
\* together with the zero value, never a success.
C11_MissingMarkerIsNotFound ==
    (done /\ LacksMarker(cmd, input)) =>
        /\ result.err # NoErr
        /\ result.err.kind = "errors.New"
        /\ ZeroValued(cmd, result)

C11_Witness ==
    /\ done
    /\ cmd = "androidCPUTime"
    /\ Len(input) = 14
    /\ result.err = ErrNotFound("unexpected /proc stat format")

-----------------------------------------------------------------------------

\* the number a numeral of the stat content stands for
StatNumeralValue(f) ==
    CASE f = <<"1","0","0">> -> Num(100)
      [] f = <<"5","0">>     -> Num(50)
      [] f = <<"0">>         -> Num(0)
      [] f = <<"7",".","5">> -> Frac(15, 2)

StatNumbers == StatNumerals \ {<<"x">>}

\* C12: for every stat content holding numbers as its 14th and 15th fields, the
\* CPU-time parser returns (field14 + field15) / 100 * 1000 ms.
C12_CPUTimeFromFields14And15 ==
    (/\ done
     /\ cmd = "androidCPUTime"
     /\ Len(input) >= 15
     /\ input[14] \in StatNumbers
     /\ input[15] \in StatNumbers) =>
        result = [v   |-> FMul(FDiv(FAdd(StatNumeralValue(input[14]),
                                         StatNumeralValue(input[15])), 100), 1000),
                  err |-> NoErr]

-----------------------------------------------------------------------------
(* ios: resolveDeviceMetadata and the choice of the launch target in Run, as *)
(* a function of the simulator listing and the requested device id.          *)

MaxListed == 3

\* a simulator the listing names neither a runtime nor a device type for
Sim4 == [UDID |-> "SIM-4", Name |-> W_iPadAir, State |-> W_Shutdown,
         DeviceTypeIdentifier |-> <<>>, Runtime |-> <<>>]

\* the records of `simctl list devices --json`, in the order they are listed
Listings ==
    {q \in SeqsUpTo({Sim1, Sim2, Sim3, Sim4}, MaxListed) :
        \A i, j \in DOMAIN q : i # j => q[i] # q[j]}

\* what listSimctlDevices returns: the listing, or an error
ListResults ==
    {[listing |-> q, err |-> NoErr] : q \in Listings}
    \cup {[listing |-> <<>>, err |-> e] :
            e \in {Wrap("list simulators", ErrExit),
                   Err("*json.SyntaxError", "decode simctl json")}}

RequestedIDs == {"", "SIM-1", "SIM-3", "SIM-4", "PHONE-1"}

InitDevices ==
    /\ cmd = "resolveDeviceMetadata"
    /\ opts \in {[NoOpts EXCEPT !.bundle = Bundle, !.iDevice = d] : d \in RequestedIDs}
    /\ pc = "resolve"
    /\ expired = FALSE
    /\ proc = NoProc
    /\ spawned = <<>>
    /\ lastRun = NoRun
    /\ loc = ZeroLoc
    /\ aRet = NotReturnedA
    /\ iRet = NotReturnedI
    /\ printed = NoResult
    /\ saved = NoResult
    /\ cmdErr = NoErr
    /\ input \in ListResults
    /\ scanned = <<>>
    /\ result = NoErr
    /\ done = FALSE

\* deviceMetadata, err := resolveDeviceMetadata(ctx, xcrun, cfg.DeviceID): the
\* listing is flattened into the map the function looks the devices up in
CallResolveDeviceMetadata ==
    /\ cmd = "resolveDeviceMetadata"
    /\ pc = "resolve"
    /\ \E r \in resolveDeviceMetadata(Range(input.listing), input.err, opts.iDevice) :
          result' = [meta |-> r.meta, err |-> r.err, target |-> ""]
    /\ pc' = "target"
    /\ UNCHANGED <<cmd, opts, expired, proc, spawned, lastRun, loc, aRet, iRet, printed,
                   saved, cmdErr, input, scanned, done>>

\* Run from the test of err to the arguments of the launch
LaunchTarget ==
    /\ cmd = "resolveDeviceMetadata"
    /\ pc = "target"
    /\ IF result.err # NoErr
       THEN result' = result /\ pc' = "failed"
       ELSE IF result.meta.ID = ""
       THEN /\ result' = [result EXCEPT !.err = Err("errors.New", "no booted simulator found")]
            /\ pc' = "failed"
       ELSE /\ result' = [result EXCEPT !.target = result.meta.ID]
            /\ pc' = "launch"
    /\ done' = TRUE
    /\ UNCHANGED <<cmd, opts, expired, proc, spawned, lastRun, loc, aRet, iRet, printed,
                   saved, cmdErr, input, scanned>>

NextDevices ==
    \/ CallResolveDeviceMetadata
    \/ LaunchTarget

SpecDevices == InitDevices /\ [][NextDevices]_vars

-----------------------------------------------------------------------------
(* Properties of the iOS device resolution (SpecDevices).                    *)

\* C13: when the listing of the simulators fails and no device id was
\* requested, resolveDeviceMetadata returns the empty metadata record without
\* an error, and ios.Run does not return an error because of the listing.
C13_FailedListingDoesNotFailRun ==
    (input.err # NoErr /\ opts.iDevice = "") =>
        /\ pc = "target" => (result.meta = EmptyIOSDevice /\ result.err = NoErr)
        /\ done => result.err = NoErr

W_iOS17_2 == <<"i","O","S"," ","1","7",".","2">>

\* the metadata of a listed simulator, field by field
ListedMetadata(d) ==
    [nil |-> FALSE, ID |-> d.UDID, Model |-> d.Name,
     OSVersion |-> IF d.Runtime = W_RuntimeIOS17 THEN W_iOS17_2 ELSE <<>>,
     Platform |-> "ios", Resolution |-> d.DeviceTypeIdentifier]

\* metadata holding only the id and the platform
MinimalMetadata(id) ==
    [nil |-> FALSE, ID |-> id, Model |-> <<>>, OSVersion |-> <<>>, Platform |-> "ios",
     Resolution |-> <<>>]

BootedSims == {Sim1, Sim2}

\* the first record of the listing that is booted
FirstBooted(q) ==
    q[CHOOSE i \in DOMAIN q : q[i] \in BootedSims /\ \A j \in 1..(i - 1) : q[j] \notin BootedSims]

\* C15: with no requested device id, the device resolution returns the first
\* record of the listing whose state is "Booted": the device chosen is a
\* function of the listing alone.
C15_FirstBootedIsChosen ==
    (/\ pc = "target"
     /\ opts.iDevice = ""
     /\ input.err = NoErr
     /\ \E i \in DOMAIN input.listing : input.listing[i] \in BootedSims) =>
        result.meta.ID = FirstBooted(input.listing).UDID

-----------------------------------------------------------------------------
(* Properties of the iOS memory and time parsers (SpecParsers).              *)

\* the lines that name the physical footprint and carry a size
SizedFootprintLines ==
    {LineFootprint, LineFootprintKB, LineFootprintBytes, LineFootprintB,
     LineFootprintKiB, LineFootprintMiB, LineFootprintGB, LineFootprintGiB}

\* the size each of them states, in MB: bytes over 1024 * 1024, KB over 1024,
\* MB as it is, GB times 1024
StatedMB(line) ==
    CASE line = LineFootprint      -> Frac(523, 10)
      [] line = LineFootprintKB    -> Frac(53500, 1024)
      [] line = LineFootprintBytes -> Frac(2097152, 1024 * 1024)
      [] line = LineFootprintB     -> Frac(1048576, 1024 * 1024)
      [] line = LineFootprintKiB   -> Frac(512, 1024)
      [] line = LineFootprintMiB   -> Num(7)
      [] line = LineFootprintGB    -> Num(2 * 1024)
      [] line = LineFootprintGiB   -> Frac(15 * 1024, 10)

\* the position of the first element of q that is in S
FirstIndexIn(q, S) ==
    CHOOSE i \in DOMAIN q : q[i] \in S /\ \A j \in 1..(i - 1) : q[j] \notin S

\* C16: the iOS memory parser returns the size of the first line that names
\* the physical footprint and carries a <number><unit> size, normalized to MB
\* by its unit.
C16_FootprintNormalizedToMB ==
    (/\ done
     /\ cmd = "parseIOSMemoryOutput"
     /\ \E i \in DOMAIN input : input[i] \in SizedFootprintLines) =>
        result = [v |-> StatedMB(input[FirstIndexIn(input, SizedFootprintLines)]),
                  err |-> NoErr]

C16_Witness ==
    /\ done
    /\ cmd = "parseIOSMemoryOutput"
    /\ input = <<LineVirtualSize, LineFootprintKB>>
    /\ result.v = Frac(53500, 1024)

\* the number a numeral of the TIME column stands for
TimeNumeralValue(f) ==
    CASE f = <<"0","2">>     -> Num(2)
      [] f = <<"0","3">>     -> Num(3)
      [] f = <<"0","4">>     -> Num(4)
      [] f = <<"1",".","5">> -> Frac(3, 2)
      [] f = <<"1">>         -> Num(1)
      [] f = <<"0">>         -> Num(0)
      [] f = <<>>            -> Num(0)

\* the time has the shape [D-][HH:]MM:SS with a number in every part
WellFormedTime(t) ==
    /\ Len(t.parts) \in {2, 3}
    /\ t.days # <<"x">>
    /\ \A i \in DOMAIN t.parts : t.parts[i] # <<"x">>

\* ((D * 24 + HH) * 3600 + MM * 60 + SS) * 1000
StatedMilliseconds(d, hh, mm, ss) ==
    FMul(FAdd(FAdd(FMul(FAdd(FMul(d, 24), hh), 3600), FMul(mm, 60)), ss), 1000)

StatedTimeMs(t) ==
    StatedMilliseconds(TimeNumeralValue(t.days),
                       IF Len(t.parts) = 3 THEN TimeNumeralValue(t.parts[1]) ELSE Num(0),
                       TimeNumeralValue(t.parts[Len(t.parts) - 1]),
                       TimeNumeralValue(t.parts[Len(t.parts)]))

\* C17: parseDarwinTime turns MM:SS, HH:MM:SS and D-HH:MM:SS into
\* ((D * 24 + HH) * 3600 + MM * 60 + SS) * 1000 ms, absent parts counting as 0,
\* and returns an error for any other number of parts between the colons.
C17_DarwinTimeInMilliseconds ==
    (done /\ cmd = "parseDarwinTime") =>
        /\ WellFormedTime(input) => result = [v |-> StatedTimeMs(input), err |-> NoErr]
        /\ Len(input.parts) \notin {2, 3} => result.err # NoErr

C17_Witness ==
    /\ done
    /\ cmd = "parseDarwinTime"
    /\ input = [days |-> <<"1">>, parts |-> << <<"0","2">>, <<"0","3">>, <<"0","4">> >>]
    /\ result = [v |-> Num(((1 * 24 + 2) * 3600 + 3 * 60 + 4) * 1000), err |-> NoErr]

-----------------------------------------------------------------------------
(* report: the JSON document SaveJSON writes, and what encoding/json reads   *)
(* back from it into a Result.  A document is a tree of members              *)
(* [key, t, text, members]: t is "string", "number", "array" or "object",    *)
(* text holds the characters of a string (between the quotes) or a number.   *)

Member(key, t, text, members) == [key |-> key, t |-> t, text |-> text, members |-> members]

\* encoding/json, string encoder with HTML escaping: the characters written for c
EscapeChar(c) ==
    CASE c = "\"" -> <<"\\", "\"">>
      [] c = "\\" -> <<"\\", "\\">>
      [] c = "<"  -> <<"\\", "u", "0", "0", "3", "c">>
      [] c = ">"  -> <<"\\", "u", "0", "0", "3", "e">>
      [] c = "&"  -> <<"\\", "u", "0", "0", "2", "6">>
      [] OTHER    -> <<c>>

RECURSIVE EncodeString(_)
EncodeString(s) ==
    IF s = <<>> THEN <<>> ELSE EscapeChar(Head(s)) \o EncodeString(Tail(s))

\* the character \uXXXX stands for, on the escapes the encoder writes
UnicodeEscape(hex) ==
    CASE hex = <<"0", "0", "3", "c">> -> "<"
      [] hex = <<"0", "0", "3", "e">> -> ">"
      [] hex = <<"0", "0", "2", "6">> -> "&"
      [] OTHER                        -> "?"

\* encoding/json, string decoder
RECURSIVE DecodeString(_)
DecodeString(t) ==
    IF t = <<>> THEN <<>>
    ELSE IF Head(t) # "\\" THEN <<Head(t)>> \o DecodeString(Tail(t))
    ELSE IF t[2] = "u" THEN <<UnicodeEscape(SubSeq(t, 3, 6))>> \o DecodeString(Drop(t, 6))
    ELSE <<t[2]>> \o DecodeString(Drop(t, 2))

\* the decimal digits of a natural number
RECURSIVE IntText(_)
IntText(n) ==
    IF n < 10 THEN <<DigitChars[n + 1]>> ELSE IntText(n \div 10) \o <<DigitChars[(n % 10) + 1]>>

\* the digits after the point of r / den (0 <= r < den), to the last non-zero one
RECURSIVE FractionText(_, _)
FractionText(r, den) ==
    IF r = 0 THEN <<>>
    ELSE <<DigitChars[((r * 10) \div den) + 1]>> \o FractionText((r * 10) % den, den)

\* encoding/json, float encoder: the shortest decimal text that reads back as
\* the same float64 (format 'f', the magnitudes of the metrics need no exponent)
EncodeFloat(x) ==
    (IF x.num < 0 THEN <<"-">> ELSE <<>>)
    \o IntText(Abs(x.num) \div x.den)
    \o (IF Abs(x.num) % x.den = 0 THEN <<>>
        ELSE <<".">> \o FractionText(Abs(x.num) % x.den, x.den))

\* encoding/json, float decoder: strconv.ParseFloat on the number's text
DecodeFloat(t) == ParseFloat(t).v

\* time.Time: the seconds and nanoseconds of the instant (UTC)
ZeroTime == [sec |-> 0, nsec |-> 0]

\* the nine digits of the nanoseconds, without the trailing zeros
RECURSIVE TrimZeros(_)
TrimZeros(s) == IF s # <<>> /\ s[Len(s)] = "0" THEN TrimZeros(Take(s, Len(s) - 1)) ELSE s

RECURSIVE PadLeft(_, _)
PadLeft(s, n) == IF Len(s) >= n THEN s ELSE PadLeft(<<"0">> \o s, n)

RECURSIVE PadRight(_, _)
PadRight(s, n) == IF Len(s) >= n THEN s ELSE PadRight(s \o <<"0">>, n)

\* Time.MarshalJSON (RFC 3339 with nanoseconds): the seconds, then the
\* fraction of the second when it is not zero, trailing zeros dropped.  The
\* calendar rendering of the seconds is left as their count.
EncodeTime(t) ==
    IntText(t.sec)
    \o (IF t.nsec = 0 THEN <<>> ELSE <<".">> \o TrimZeros(PadLeft(IntText(t.nsec), 9)))
    \o <<"Z">>

\* Time.UnmarshalJSON
DecodeTimeParts(parts) ==
    [sec  |-> DigitsValue(parts[1]),
     nsec |-> IF Len(parts) = 2 THEN DigitsValue(PadRight(parts[2], 9)) ELSE 0]

DecodeTime(t) == DecodeTimeParts(SplitN2(TrimSuffix(t, <<"Z">>), "."))

\* the values of the report structs, every field included

\* a nil *DeviceMetadata, *AndroidMetrics and *IOSMetrics
NoDevice ==
    [nil |-> TRUE, ID |-> <<>>, Model |-> <<>>, OSVersion |-> <<>>, Platform |-> <<>>,
     Resolution |-> <<>>]

NoAndroid ==
    [nil |-> TRUE, Component |-> <<>>, Activity |-> <<>>, Package |-> <<>>,
     BenchmarkComponent |-> <<>>, FirstFrameMs |-> Num(0), TotalTimeMs |-> Num(0),
     WaitTimeMs |-> Num(0), MemoryMB |-> Num(0), CPUPercent |-> Num(0),
     CPUTimeMs |-> Num(0), LaunchState |-> <<>>, Device |-> NoDevice, Command |-> <<>>,
     Timestamp |-> ZeroTime]

NoIOS ==
    [nil |-> TRUE, Component |-> <<>>, BundleID |-> <<>>, LaunchArgs |-> <<>>,
     BenchmarkComponent |-> <<>>, RenderTimeMs |-> Num(0), MemoryMB |-> Num(0),
     CPUPercent |-> Num(0), CPUTimeMs |-> Num(0), Device |-> NoDevice, Command |-> <<>>,
     Timestamp |-> ZeroTime]

\* a member with the omitempty option: left out when the value is empty
OmitEmpty(empty, member) == IF empty THEN <<>> ELSE <<member>>

StringMember(key, s) == Member(key, "string", EncodeString(s), <<>>)

FloatMember(key, x) == Member(key, "number", EncodeFloat(x), <<>>)

OmitEmptyString(key, s) == OmitEmpty(s = <<>>, StringMember(key, s))

OmitEmptyFloat(key, x) == OmitEmpty(x = Num(0), FloatMember(key, x))

MarshalDevice(d) ==
    OmitEmptyString("id", d.ID)
    \o OmitEmptyString("model", d.Model)
    \o OmitEmptyString("osVersion", d.OSVersion)
    \o OmitEmptyString("platform", d.Platform)
    \o OmitEmptyString("resolution", d.Resolution)

\* a variant that also leaves out a device record that holds nothing
OmitHollowDevice(d) ==
    OmitEmpty(d.nil \/ MarshalDevice(d) = <<>>,
              Member("device", "object", <<>>, MarshalDevice(d)))

OmitNilDevice(d) == OmitEmpty(d.nil, Member("device", "object", <<>>, MarshalDevice(d)))

MarshalAndroid(m) ==
    <<StringMember("component", m.Component),
      StringMember("activity", m.Activity),
      StringMember("package", m.Package)>>
    \o OmitEmptyString("benchmarkComponent", m.BenchmarkComponent)
    \o OmitEmptyFloat("firstFrameMs", m.FirstFrameMs)
    \o OmitEmptyFloat("totalTimeMs", m.TotalTimeMs)
    \o OmitEmptyFloat("waitTimeMs", m.WaitTimeMs)
    \o OmitEmptyFloat("memoryMb", m.MemoryMB)
    \o OmitEmptyFloat("cpuPercent", m.CPUPercent)
    \o OmitEmptyFloat("cpuTimeMs", m.CPUTimeMs)
    \o OmitEmptyString("launchState", m.LaunchState)
    \o OmitNilDevice(m.Device)
    \o OmitEmptyString("command", m.Command)
    \o <<Member("timestamp", "string", EncodeTime(m.Timestamp), <<>>)>>

MarshalStrings(args) == [i \in DOMAIN args |-> StringMember("", args[i])]

MarshalIOS(m) ==
    <<StringMember("component", m.Component),
      StringMember("bundleId", m.BundleID)>>
    \o OmitEmpty(m.LaunchArgs = <<>>,
                 Member("launchArgs", "array", <<>>, MarshalStrings(m.LaunchArgs)))
    \o OmitEmptyString("benchmarkComponent", m.BenchmarkComponent)
    \o OmitEmptyFloat("renderTimeMs", m.RenderTimeMs)
    \o OmitEmptyFloat("memoryMb", m.MemoryMB)
    \o OmitEmptyFloat("cpuPercent", m.CPUPercent)
    \o OmitEmptyFloat("cpuTimeMs", m.CPUTimeMs)
    \o OmitNilDevice(m.Device)
    \o OmitEmptyString("command", m.Command)
    \o <<Member("timestamp", "string", EncodeTime(m.Timestamp), <<>>)>>

\* enc.Encode(result): the members of the document
MarshalResult(r) ==
    <<StringMember("component", r.Component)>>
    \o OmitEmpty(r.Android.nil, Member("android", "object", <<>>, MarshalAndroid(r.Android)))
    \o OmitEmpty(r.IOS.nil, Member("ios", "object", <<>>, MarshalIOS(r.IOS)))
    \o OmitEmptyString("cliCommand", r.CLICommand)

\* json.Unmarshal into a zero Result: a member sets its field, a field without
\* a member keeps its zero value
Has(ms, key) == \E i \in DOMAIN ms : ms[i].key = key

Get(ms, key) == ms[CHOOSE i \in DOMAIN ms : ms[i].key = key]

StringOf(ms, key) == IF Has(ms, key) THEN DecodeString(Get(ms, key).text) ELSE <<>>

FloatOf(ms, key) == IF Has(ms, key) THEN DecodeFloat(Get(ms, key).text) ELSE Num(0)

TimeOf(ms, key) == IF Has(ms, key) THEN DecodeTime(Get(ms, key).text) ELSE ZeroTime

UnmarshalDevice(ms) ==
    [nil |-> FALSE, ID |-> StringOf(ms, "id"), Model |-> StringOf(ms, "model"),
     OSVersion |-> StringOf(ms, "osVersion"), Platform |-> StringOf(ms, "platform"),
     Resolution |-> StringOf(ms, "resolution")]

DeviceOf(ms) ==
    IF Has(ms, "device") THEN UnmarshalDevice(Get(ms, "device").members) ELSE NoDevice

UnmarshalAndroid(ms) ==
    [nil |-> FALSE, Component |-> StringOf(ms, "component"),
     Activity |-> StringOf(ms, "activity"), Package |-> StringOf(ms, "package"),
     BenchmarkComponent |-> StringOf(ms, "benchmarkComponent"),
     FirstFrameMs |-> FloatOf(ms, "firstFrameMs"), TotalTimeMs |-> FloatOf(ms, "totalTimeMs"),
     WaitTimeMs |-> FloatOf(ms, "waitTimeMs"), MemoryMB |-> FloatOf(ms, "memoryMb"),
     CPUPercent |-> FloatOf(ms, "cpuPercent"), CPUTimeMs |-> FloatOf(ms, "cpuTimeMs"),
     LaunchState |-> StringOf(ms, "launchState"), Device |-> DeviceOf(ms),
     Command |-> StringOf(ms, "command"), Timestamp |-> TimeOf(ms, "timestamp")]

UnmarshalStrings(ms) == [i \in DOMAIN ms |-> DecodeString(ms[i].text)]

UnmarshalIOS(ms) ==
    [nil |-> FALSE, Component |-> StringOf(ms, "component"),
     BundleID |-> StringOf(ms, "bundleId"),
     LaunchArgs |-> IF Has(ms, "launchArgs")
                    THEN UnmarshalStrings(Get(ms, "launchArgs").members) ELSE <<>>,
     BenchmarkComponent |-> StringOf(ms, "benchmarkComponent"),
     RenderTimeMs |-> FloatOf(ms, "renderTimeMs"), MemoryMB |-> FloatOf(ms, "memoryMb"),
     CPUPercent |-> FloatOf(ms, "cpuPercent"), CPUTimeMs |-> FloatOf(ms, "cpuTimeMs"),
     Device |-> DeviceOf(ms), Command |-> StringOf(ms, "command"),
     Timestamp |-> TimeOf(ms, "timestamp")]

UnmarshalResult(ms) ==
    [Component  |-> StringOf(ms, "component"),
     Android    |-> IF Has(ms, "android")
                    THEN UnmarshalAndroid(Get(ms, "android").members) ELSE NoAndroid,
     IOS        |-> IF Has(ms, "ios") THEN UnmarshalIOS(Get(ms, "ios").members) ELSE NoIOS,
     CLICommand |-> StringOf(ms, "cliCommand")]

-----------------------------------------------------------------------------
(* SpecReport: SaveJSON and FormatSummary on a set of Results that covers    *)
(* absent and present platforms, absent, empty and filled device records,    *)
(* and measures that are zero, whole or fractional.                          *)

W_ScreenX == <<"S","c","r","e","e","n","X">>
W_Pixel8 == <<"P","i","x","e","l"," ","8">>
W_QuotedModel == <<"i","P","h","o","n","e"," ","\"","1","5","\""," ","<","P","r","o",">"," ","&"," ","C","o","\\","S","i","m">>
W_Android14 == <<"A","n","d","r","o","i","d"," ","1","4"," ","(","S","D","K"," ","3","4",")">>
W_android == <<"a","n","d","r","o","i","d">>
W_Resolution == <<"1","0","8","0","x","2","4","0","0">>
W_EMU == <<"e","m","u","l","a","t","o","r","-","5","5","5","4">>
W_SIM == <<"S","I","M","-","1">>
W_CliCommand == <<"d","e","s","i","g","n","b","e","n","c","h"," ","a","n","d","r","o","i","d"," ","-","-","c","o","m","p","o","n","e","n","t"," ","S","c","r","e","e","n","X">>
W_AdbCommand == <<"a","d","b"," ","s","h","e","l","l"," ","a","m"," ","s","t","a","r","t"," ","-","W">>
W_SimctlCommand == <<"x","c","r","u","n"," ","s","i","m","c","t","l"," ","l","a","u","n","c","h">>
W_LaunchArg == <<"-","-","b","e","n","c","h","m","a","r","k">>

\* &DeviceMetadata{}: a record that is there and holds nothing
EmptyDevice == [NoDevice EXCEPT !.nil = FALSE]

ReportDevices ==
    {NoDevice,
     EmptyDevice,
     [EmptyDevice EXCEPT !.ID = W_EMU, !.Platform = W_android],
     [EmptyDevice EXCEPT !.ID = W_EMU, !.Model = W_Pixel8, !.OSVersion = W_Android14,
                         !.Platform = W_android, !.Resolution = W_Resolution],
     [EmptyDevice EXCEPT !.ID = W_SIM, !.Model = W_QuotedModel, !.Platform = W_ios]}

Instants ==
    {ZeroTime,
     [sec |-> 1700000000, nsec |-> 0],
     [sec |-> 1700000000, nsec |-> 500000000],
     [sec |-> 1700000001, nsec |-> 123456789]}

\* &AndroidMetrics{} with the fields Run always sets
BareAndroid ==
    [NoAndroid EXCEPT !.nil = FALSE, !.Component = W_ScreenX, !.Activity = Act,
                      !.Package = Pkg]

AndroidMeasures ==
    {BareAndroid,
     [BareAndroid EXCEPT !.TotalTimeMs = Num(350), !.WaitTimeMs = Num(352),
                         !.LaunchState = W_COLD, !.Command = W_AdbCommand],
     [BareAndroid EXCEPT !.BenchmarkComponent = W_component, !.FirstFrameMs = Frac(1401, 4),
                         !.TotalTimeMs = Frac(701, 2), !.WaitTimeMs = Num(352),
                         !.MemoryMB = Frac(209, 4), !.CPUPercent = Frac(25, 2),
                         !.CPUTimeMs = Num(1500), !.LaunchState = W_COLD,
                         !.Command = W_AdbCommand],
     [BareAndroid EXCEPT !.TotalTimeMs = Frac(1, 16), !.MemoryMB = Frac(523, 10),
                         !.CPUTimeMs = Frac(3, 2)],
     [BareAndroid EXCEPT !.Component = <<>>, !.CPUPercent = Frac(1, 32)]}

ReportAndroids ==
    {NoAndroid}
    \cup {[m EXCEPT !.Device = d, !.Timestamp = t] :
            m \in AndroidMeasures, d \in ReportDevices, t \in Instants}

BareIOS == [NoIOS EXCEPT !.nil = FALSE, !.Component = W_ScreenX, !.BundleID = Bundle]

IOSMeasures ==
    {BareIOS,
     [BareIOS EXCEPT !.RenderTimeMs = Frac(1203, 10), !.Command = W_SimctlCommand],
     [BareIOS EXCEPT !.LaunchArgs = <<W_LaunchArg, W_QuotedModel>>,
                     !.BenchmarkComponent = W_component, !.RenderTimeMs = Num(120),
                     !.MemoryMB = Num(7), !.CPUPercent = Frac(3, 2),
                     !.CPUTimeMs = Num(3723500), !.Command = W_SimctlCommand],
     [BareIOS EXCEPT !.MemoryMB = Num(1536), !.CPUTimeMs = Frac(5, 2)]}

ReportIOSs ==
    {NoIOS}
    \cup {[m EXCEPT !.Device = d, !.Timestamp = t] :
            m \in IOSMeasures, d \in ReportDevices,
            t \in {[sec |-> 1700000000, nsec |-> 500000000]}}

Results ==
    [Component : {W_ScreenX, <<>>}, Android : ReportAndroids, IOS : ReportIOSs,
     CLICommand : {<<>>, W_CliCommand}]

\* fmt, verb %.<digits>f on a value >= 0: the decimal text to that many
\* places, the nearest one, the even one on a tie
RoundHalfEven(n, d) ==
    IF 2 * (n % d) > d \/ (2 * (n % d) = d /\ (n \div d) % 2 = 1)
    THEN (n \div d) + 1
    ELSE n \div d

FixedText(q, digits) ==
    IntText(q \div Pow10(digits))
    \o (IF digits = 0 THEN <<>> ELSE <<".">> \o PadLeft(IntText(q % Pow10(digits)), digits))

FormatFixed(x, digits) == FixedText(RoundHalfEven(x.num * Pow10(digits), x.den), digits)

Positive(x) == x.num > 0

\* a variant that prints the model field of the record as it is
SummaryModelAsIs(m) == IF ~m.Device.nil THEN m.Device.Model ELSE <<"-">>

SummaryModel(m) == IF ~m.Device.nil /\ m.Device.Model # <<>> THEN m.Device.Model ELSE <<"-">>

SummaryMemory(m) ==
    IF Positive(m.MemoryMB) THEN FormatFixed(m.MemoryMB, 1) \o <<"M","B">> ELSE <<"-">>

SummaryCPU(m) ==
    IF Positive(m.CPUPercent) THEN FormatFixed(m.CPUPercent, 1) \o <<"%">> ELSE <<"-">>

SummaryCPUTime(m) ==
    IF Positive(m.CPUTimeMs) THEN FormatFixed(m.CPUTimeMs, 0) \o <<"m","s">> ELSE <<"-">>

SummaryUsage(m) ==
    <<" ","m","e","m","o","r","y","=">> \o SummaryMemory(m) \o <<" ","c","p","u","=">> \o SummaryCPU(m)
    \o <<" ","c","p","u","T","i","m","e","=">> \o SummaryCPUTime(m)

AndroidSummaryLine(m) ==
    <<" "," ","A","n","d","r","o","i","d","[">> \o SummaryModel(m)
    \o <<"]",":"," ","t","o","t","a","l","=">> \o FormatFixed(m.TotalTimeMs, 1)
    \o <<"m","s"," ","f","i","r","s","t","F","r","a","m","e","=">> \o FormatFixed(m.FirstFrameMs, 1)
    \o <<"m","s"," ","w","a","i","t","=">> \o FormatFixed(m.WaitTimeMs, 1)
    \o <<"m","s">> \o SummaryUsage(m)

IOSSummaryLine(m) ==
    <<" "," ","i","O","S","[">> \o SummaryModel(m)
    \o <<"]",":"," ","r","e","n","d","e","r","=">> \o FormatFixed(m.RenderTimeMs, 1)
    \o <<"m","s">> \o SummaryUsage(m)

\* the lines of the text FormatSummary returns, each ended by a newline there
FormatSummary(res) ==
    <<<<"C","o","m","p","o","n","e","n","t",":"," ">> \o res.Component>>
    \o (IF res.Android.nil THEN <<>> ELSE <<AndroidSummaryLine(res.Android)>>)
    \o (IF res.IOS.nil THEN <<>> ELSE <<IOSSummaryLine(res.IOS)>>)

ReportCommands == {"SaveJSON", "FormatSummary"}

InitReport ==
    /\ cmd \in ReportCommands
    /\ CmdIdle
    /\ input \in Results
    /\ scanned = <<>>
    /\ result = NoErr
    /\ done = FALSE

\* SaveJSON(path, result): the document the encoder writes to the file
CallSaveJSON ==
    /\ cmd = "SaveJSON"
    /\ scanned = <<>>
    /\ ~done
    /\ scanned' = MarshalResult(input)
    /\ UNCHANGED <<cmd, opts, pc, expired, proc, spawned, lastRun, loc, aRet, iRet,
                   printed, saved, cmdErr, input, result, done>>

\* json.Unmarshal of the file into a Result
ParseBack ==
    /\ cmd = "SaveJSON"
    /\ scanned # <<>>
    /\ ~done
    /\ result' = UnmarshalResult(scanned)
    /\ done' = TRUE
    /\ UNCHANGED <<cmd, opts, pc, expired, proc, spawned, lastRun, loc, aRet, iRet,
                   printed, saved, cmdErr, input, scanned>>

CallFormatSummary ==
    /\ cmd = "FormatSummary"
    /\ ~done
    /\ result' = FormatSummary(input)
    /\ done' = TRUE
    /\ UNCHANGED <<cmd, opts, pc, expired, proc, spawned, lastRun, loc, aRet, iRet,
                   printed, saved, cmdErr, input, scanned>>

NextReport ==
    \/ CallSaveJSON
    \/ ParseBack
    \/ CallFormatSummary

SpecReport == InitReport /\ [][NextReport]_vars

-----------------------------------------------------------------------------
(* C18, C19: the report                                                      *)

ParsedBack == cmd = "SaveJSON" /\ done

\* the members of the document under a key, <<>> when the key is absent
Under(ms, key) == IF Has(ms, key) THEN Get(ms, key).members ELSE <<>>

\* C18: serializing a Result to JSON and parsing it back reproduces every
\* field exactly, whichever of the Android metrics, the iOS metrics and their
\* device records are present; an absent platform or device record is absent
\* again, and its key is not in the document.
C18_JSONRoundTrip ==
    ParsedBack =>
        /\ result = input
        /\ Has(scanned, "android") <=> ~input.Android.nil
        /\ Has(scanned, "ios") <=> ~input.IOS.nil
        /\ Has(Under(scanned, "android"), "device") <=> ~input.Android.Device.nil
        /\ Has(Under(scanned, "ios"), "device") <=> ~input.IOS.Device.nil

C18_Witness ==
    /\ ParsedBack
    /\ ~input.Android.nil /\ input.IOS.nil
    /\ ~input.Android.Device.nil /\ input.Android.Device.Model = W_Pixel8
    /\ input.Android.MemoryMB = Frac(209, 4)
    /\ input.Android.Timestamp.nsec = 123456789
    /\ result.Android.MemoryMB = Frac(209, 4)
    /\ result.IOS.nil

Summarized == cmd = "FormatSummary" /\ done

\* the figures of the Results and the text a reader expects for each
StatedMemoryText(x) ==
    CASE x = Frac(209, 4) -> <<"5","2",".","2","M","B">>
      [] x = Frac(523, 10) -> <<"5","2",".","3","M","B">>
      [] x = Num(7) -> <<"7",".","0","M","B">>
      [] x = Num(1536) -> <<"1","5","3","6",".","0","M","B">>
      [] x = Num(0) -> <<"-">>
      [] OTHER -> <<"?">>

StatedCPUText(x) ==
    CASE x = Frac(25, 2) -> <<"1","2",".","5","%">>
      [] x = Frac(1, 32) -> <<"0",".","0","%">>
      [] x = Frac(3, 2) -> <<"1",".","5","%">>
      [] x = Num(0) -> <<"-">>
      [] OTHER -> <<"?">>

StatedCPUTimeText(x) ==
    CASE x = Num(1500) -> <<"1","5","0","0","m","s">>
      [] x = Frac(3, 2) -> <<"2","m","s">>
      [] x = Frac(5, 2) -> <<"2","m","s">>
      [] x = Num(3723500) -> <<"3","7","2","3","5","0","0","m","s">>
      [] x = Num(0) -> <<"-">>
      [] OTHER -> <<"?">>

StatedModel(m) ==
    IF m.Device \in {NoDevice, EmptyDevice} THEN <<"-">>
    ELSE IF m.Device.ID = W_SIM THEN W_QuotedModel
    ELSE IF m.Device.OSVersion = W_Android14 THEN W_Pixel8
    ELSE <<"-">>

\* what a platform line says of the device and of memory, CPU and CPU time
PlatformLineShows(line, label, m) ==
    /\ HasPrefix(line, label \o <<"[">> \o StatedModel(m) \o <<"]", ":", " ">>)
    /\ HasSuffix(line, <<" ","m","e","m","o","r","y","=">> \o StatedMemoryText(m.MemoryMB)
                       \o <<" ","c","p","u","=">> \o StatedCPUText(m.CPUPercent)
                       \o <<" ","c","p","u","T","i","m","e","=">> \o StatedCPUTimeText(m.CPUTimeMs))

\* C19: FormatSummary emits the component line, then one line per present
\* platform, Android before iOS and none for an absent platform; a platform
\* line shows the device model, or "-" when the device record or its model is
\* absent, and memory, CPU percent and CPU time each with its unit when set
\* and as "-" when absent.
C19_SummaryLines ==
    Summarized =>
        /\ Len(result) = 1 + (IF input.Android.nil THEN 0 ELSE 1)
                           + (IF input.IOS.nil THEN 0 ELSE 1)
        /\ result[1] = <<"C","o","m","p","o","n","e","n","t",":"," ">> \o input.Component
        /\ ~input.Android.nil =>
               PlatformLineShows(result[2], <<" "," ","A","n","d","r","o","i","d">>, input.Android)
        /\ ~input.IOS.nil =>
               PlatformLineShows(result[Len(result)], <<" "," ","i","O","S">>, input.IOS)

C19_Witness ==
    /\ Summarized
    /\ Len(result) = 3
    /\ input.Android.Device.Model = W_Pixel8
    /\ input.Android.MemoryMB = Frac(209, 4)
    /\ input.Android.CPUPercent = Frac(25, 2)
    /\ input.IOS.Device.nil
    /\ input.IOS.MemoryMB = Num(0)
    /\ input.IOS.CPUTimeMs = Num(0)
    /\ HasPrefix(result[3], <<" "," ","i","O","S">> \o <<"[", "-", "]">>)

-----------------------------------------------------------------------------
(* designbench: the name of the report file (main.go, resolveOutputFile,     *)
(* defaultReportFileName, sanitizeToken)                                     *)

defaultReportsDir == <<"d","e","s","i","g","n","b","e","n","c","h","-","r","e","p","o","r","t","s">>
W_run == <<"r","u","n">>
W_json == <<".","j","s","o","n">>

IsTokenChar(ch) == ch \in Range(LowerChars) \/ ch \in Range(DigitChars)

\* the loop of sanitizeToken over the bytes of v: what the builder holds
RECURSIVE SlugBytes(_, _)
SlugBytes(v, lastDash) ==
    IF v = <<>> THEN <<>>
    ELSE IF IsTokenChar(Head(v)) THEN <<Head(v)>> \o SlugBytes(Tail(v), FALSE)
    ELSE IF ~lastDash THEN <<"-">> \o SlugBytes(Tail(v), TRUE)
    ELSE SlugBytes(Tail(v), lastDash)

\* strings.Trim(s, "-")
RECURSIVE TrimLeftDashes(_)
TrimLeftDashes(s) == IF s # <<>> /\ Head(s) = "-" THEN TrimLeftDashes(Tail(s)) ELSE s

RECURSIVE TrimRightDashes(_)
TrimRightDashes(s) ==
    IF s # <<>> /\ s[Len(s)] = "-" THEN TrimRightDashes(Take(s, Len(s) - 1)) ELSE s

TrimDashes(s) == TrimRightDashes(TrimLeftDashes(s))

\* a variant that keeps the dashes at the ends of the builder's text
SlugUntrimmed(v) == SlugBytes(v, FALSE)

SlugToken(v) == TrimDashes(SlugBytes(v, FALSE))

OrFallback(token, fallback) == IF token = <<>> THEN fallback ELSE token

sanitizeToken(value, fallback) ==
    IF TrimSpace(ToLower(value)) = <<>> THEN fallback
    ELSE OrFallback(SlugToken(TrimSpace(ToLower(value))), fallback)

ReportFileName(componentToken, platformToken) ==
    IF platformToken # <<>> THEN componentToken \o <<"-">> \o platformToken \o W_json
    ELSE componentToken \o W_json

defaultReportFileName(component, platform) ==
    ReportFileName(sanitizeToken(component, W_component), sanitizeToken(platform, W_run))

\* filepath.Join(dir, name) and filepath.IsAbs, on paths without "." and ".."
\* elements and without doubled separators
PathJoin(dir, name) == TrimSuffix(dir, <<"/">>) \o <<"/">> \o name

IsAbs(path) == HasPrefix(path, <<"/">>)

ReportsDirOf(dir) == IF TrimSpace(dir) = <<>> THEN defaultReportsDir ELSE TrimSpace(dir)

\* resolveOutputFile(component, platform) under the flags --output and
\* --reports-dir; mkdirOK says whether os.MkdirAll succeeded
resolveOutputFile(component, platform, outputPath, reportsDir, mkdirOK) ==
    IF TrimSpace(outputPath) = <<>>
    THEN IF ~mkdirOK THEN [path |-> <<>>, err |-> Err("fmt.Errorf", "create reports dir")]
         ELSE [path |-> PathJoin(ReportsDirOf(reportsDir),
                                 defaultReportFileName(component, platform)),
               err |-> NoErr]
    ELSE IF ~IsAbs(TrimSpace(outputPath))
    THEN IF ~mkdirOK THEN [path |-> <<>>, err |-> Err("fmt.Errorf", "create reports dir")]
         ELSE [path |-> PathJoin(ReportsDirOf(reportsDir), TrimSpace(outputPath)),
               err |-> NoErr]
    ELSE IF ~mkdirOK THEN [path |-> <<>>, err |-> Err("fmt.Errorf", "create output dir")]
    ELSE [path |-> TrimSpace(outputPath), err |-> NoErr]

\* SpecTokens: sanitizeToken on every text of up to MaxTokenLen characters,
\* applied again to what it returned, and resolveOutputFile on the flags

MaxTokenLen == 4

TokenAlphabet == {"a", "B", "7", "-", " ", "_"}

RECURSIVE TextsUpTo(_)
TextsUpTo(n) ==
    IF n = 0 THEN {<<>>}
    ELSE TextsUpTo(n - 1)
         \cup {Append(s, c) : s \in {t \in TextsUpTo(n - 1) : Len(t) = n - 1},
                              c \in TokenAlphabet}

W_MyScreen == <<" ","M","y"," ","S","c","r","e","e","n","_","#","2","!"," ">>
W_all == <<"a","l","l">>

OutputFlags == {<<>>, <<" ">>, <<"o","u","t",".","j","s","o","n">>, <<"/","t","m","p","/","o","u","t",".","j","s","o","n">>}

ReportsDirFlags == {defaultReportsDir, <<>>, <<"c","i","/","r","e","p","o","r","t","s">>, <<"r","e","p","o","r","t","s","/">>}

TokenInputs(name) ==
    IF name = "sanitizeToken"
    THEN [value : TextsUpTo(MaxTokenLen), fallback : {W_component, W_run}]
    ELSE [component : {W_ScreenX, W_MyScreen, <<>>, <<"-", "_">>},
          platform : {W_android, W_ios, W_all}, outputPath : OutputFlags,
          reportsDir : ReportsDirFlags]

InitTokens ==
    /\ cmd \in {"sanitizeToken", "resolveOutputFile"}
    /\ CmdIdle
    /\ input \in TokenInputs(cmd)
    /\ scanned = <<>>
    /\ result = NoErr
    /\ done = FALSE

CallSanitizeToken ==
    /\ cmd = "sanitizeToken"
    /\ pc = "idle"
    /\ result' = sanitizeToken(input.value, input.fallback)
    /\ pc' = "again"
    /\ UNCHANGED <<cmd, opts, expired, proc, spawned, lastRun, loc, aRet, iRet, printed,
                   saved, cmdErr, input, scanned, done>>

\* sanitizeToken on the token it returned
CallSanitizeTokenAgain ==
    /\ cmd = "sanitizeToken"
    /\ pc = "again"
    /\ scanned' = sanitizeToken(result, input.fallback)
    /\ pc' = "done"
    /\ done' = TRUE
    /\ UNCHANGED <<cmd, opts, expired, proc, spawned, lastRun, loc, aRet, iRet, printed,
                   saved, cmdErr, input, result>>

CallResolveOutputFile ==
    /\ cmd = "resolveOutputFile"
    /\ pc = "idle"
    /\ \E mkdirOK \in BOOLEAN :
          result' = resolveOutputFile(input.component, input.platform, input.outputPath,
                                      input.reportsDir, mkdirOK)
    /\ pc' = "done"
    /\ done' = TRUE
    /\ UNCHANGED <<cmd, opts, expired, proc, spawned, lastRun, loc, aRet, iRet, printed,
                   saved, cmdErr, input, scanned>>

NextTokens ==
    \/ CallSanitizeToken
    \/ CallSanitizeTokenAgain
    \/ CallResolveOutputFile

SpecTokens == InitTokens /\ [][NextTokens]_vars

-----------------------------------------------------------------------------
(* C20                                                                       *)

\* the letters and digits of a text, in order
RECURSIVE TokenCharsOf(_)
TokenCharsOf(s) ==
    IF s = <<>> THEN <<>>
    ELSE (IF IsTokenChar(Head(s)) THEN <<Head(s)>> ELSE <<>>) \o TokenCharsOf(Tail(s))

\* non-empty, over [a-z0-9-], no dash at either end, no two dashes in a row
IsSlug(t) ==
    /\ t # <<>>
    /\ \A i \in DOMAIN t : IsTokenChar(t[i]) \/ t[i] = "-"
    /\ t[1] # "-"
    /\ t[Len(t)] # "-"
    /\ \A i \in 1..(Len(t) - 1) : ~(t[i] = "-" /\ t[i + 1] = "-")

StatedToken(value, fallback) ==
    CASE value = W_ScreenX  -> <<"s","c","r","e","e","n","x">>
      [] value = W_MyScreen -> <<"m","y","-","s","c","r","e","e","n","-","2">>
      [] value = W_android  -> W_android
      [] value = W_ios      -> W_ios
      [] value = W_all      -> W_all
      [] OTHER              -> fallback

\* C20: sanitizeToken returns a non-empty text over [a-z0-9-] without a dash
\* at either end and without two dashes in a row, made of the lowercased
\* letters and digits of the value, or the fallback word when the value has
\* none; applied to the token it returned it returns that token; without
\* --output the report path is <reports-dir>/<component>-<platform>.json on
\* these tokens, designbench-reports/screenx-android.json for ScreenX on
\* android.
C20_ReportPathFromTokens ==
    /\ (cmd = "sanitizeToken" /\ pc # "idle") =>
           /\ IsSlug(result)
           /\ IF TokenCharsOf(ToLower(input.value)) = <<>>
              THEN result = input.fallback
              ELSE TokenCharsOf(result) = TokenCharsOf(ToLower(input.value))
    /\ (cmd = "sanitizeToken" /\ done) => scanned = result
    /\ (cmd = "resolveOutputFile" /\ done /\ result.err = NoErr
          /\ input.outputPath \in {<<>>, <<" ">>}) =>
           /\ result.path =
                 (IF input.reportsDir = <<>> THEN defaultReportsDir
                  ELSE TrimSuffix(input.reportsDir, <<"/">>))
                 \o <<"/">> \o StatedToken(input.component, W_component)
                 \o <<"-">> \o StatedToken(input.platform, W_run) \o W_json
           /\ (input.component = W_ScreenX /\ input.platform = W_android
                 /\ input.reportsDir = defaultReportsDir) =>
                  result.path = <<"d","e","s","i","g","n","b","e","n","c","h","-","r","e","p","o","r","t","s","/","s","c","r","e","e","n","x","-","a","n","d","r","o","i","d",".","j","s","o","n">>

C20_Witness ==
    /\ cmd = "sanitizeToken"
    /\ done
    /\ input.value = <<" ", "B", "_", "-">>
    /\ result = <<"b">>
    /\ scanned = <<"b">>

-----------------------------------------------------------------------------
(* C21, C22: the Android pid lookup and the CPU percent measurement          *)

\* the pid a reader takes from each output of pidof and of ps, <<>> for none
StatedPidofPid(out) ==
    CASE out = <<Line4242>>        -> Line4242
      [] out = <<Line4242And4300>> -> Line4242
      [] OTHER                     -> <<>>

StatedPSPid(out) ==
    CASE out = <<LinePSHeader, LinePSRow>>                                -> Line4242
      [] out = <<LinePSHeader, LinePSRowOther, LinePSRowUser, LinePSRow>> -> Line4242
      [] OTHER                                                            -> <<>>

\* the step of Run in which the invoker of probe p returns
Returned(p) == pc = p /\ pc' # p /\ lastRun'.proc = p

\* pidof returned: with a pid the lookup is over and ps is not run, without
\* one (failure or empty output) ps is next
C21_PidofStep ==
    Returned("pidof") =>
        IF lastRun'.err = NoErr /\ StatedPidofPid(lastRun'.out) # <<>>
        THEN pc' = "top" /\ loc'.pid = StatedPidofPid(lastRun'.out)
        ELSE pc' = "ps" /\ loc'.pid = <<>>

\* ps returned: with a row for the package the pid is its leading field,
\* otherwise the lookup fails and with it the CPU step
C21_PSStep ==
    Returned("ps") =>
        IF lastRun'.err = NoErr /\ StatedPSPid(lastRun'.out) # <<>>
        THEN pc' = "top" /\ loc'.pid = StatedPSPid(lastRun'.out)
        ELSE /\ pc' = "a_return"
             /\ loc'.cpuErr # NoErr
             /\ aRet'.err = NoErr
             /\ aRet'.metrics.CPUPercent = Num(0)
             /\ aRet'.metrics.CPUTimeMs = Num(0)

\* ps is reached from pidof only, and it is started at most once, after pidof
C21_PSOnlyAfterPidof ==
    /\ (pc' = "ps" /\ pc # "ps") => pc = "pidof"
    /\ (spawned' # spawned /\ spawned'[Len(spawned')] = "ps") =>
          (pc = "ps" /\ "ps" \notin Range(spawned))

\* C21: Android pid resolution runs pidof first; ps is run only when pidof
\* failed or printed nothing, and gives the leading field of the first line
\* that holds the package name and leads with an integer; when pidof gave a
\* pid ps is not run; when neither gives a pid the CPU step fails.
C21_PidofThenPS == [][C21_PidofStep /\ C21_PSStep /\ C21_PSOnlyAfterPidof]_vars

\* C21, the case reached: pidof printed nothing, ps was run and its third row
\* (after a row of another package and a row led by a user name) gave the pid
C21_Witness ==
    /\ pc = "top"
    /\ spawned[Len(spawned)] = "ps"
    /\ lastRun.proc = "ps"
    /\ lastRun.out = <<LinePSHeader, LinePSRowOther, LinePSRowUser, LinePSRow>>
    /\ loc.pidofErr = NoErr
    /\ loc.pid = Line4242

\* the percent a reader takes from each output of top (for pid 4242) and of
\* dumpsys cpuinfo (for the package)
StatedTopPercent(out) ==
    CASE out = <<LineTasks, LineTopHeader, LineTopRow>> -> [found |-> TRUE, v |-> Num(10)]
      [] out = <<LineTasks, LineTopHeader, LineTopRow4300, LineTopRowZero>>
            -> [found |-> TRUE, v |-> Num(0)]
      [] OTHER -> [found |-> FALSE, v |-> Num(0)]

StatedCpuinfoPercent(out) ==
    CASE out = <<LineLoad, LineCpuinfoRow>> -> [found |-> TRUE, v |-> Num(10)]
      [] OTHER -> [found |-> FALSE, v |-> Num(0)]

\* top returned: its percent is the result, or dumpsys cpuinfo is next
C22_TopStep ==
    Returned("top") =>
        IF lastRun'.err = NoErr /\ StatedTopPercent(lastRun'.out).found
        THEN /\ pc' = "cat stat"
             /\ loc'.percentErr = NoErr
             /\ loc'.cpuPercent = StatedTopPercent(lastRun'.out).v
        ELSE pc' = "dumpsys cpuinfo"

\* dumpsys cpuinfo returned: its value or its failure is the result
C22_CpuinfoStep ==
    Returned("dumpsys cpuinfo") =>
        /\ pc' = "cat stat"
        /\ IF lastRun'.err = NoErr /\ StatedCpuinfoPercent(lastRun'.out).found
           THEN /\ loc'.percentErr = NoErr
                /\ loc'.cpuPercent = StatedCpuinfoPercent(lastRun'.out).v
           ELSE loc'.percentErr # NoErr

C22_CpuinfoOnlyAfterTop ==
    /\ (pc' = "dumpsys cpuinfo" /\ pc # "dumpsys cpuinfo") => pc = "top"
    /\ (spawned' # spawned /\ spawned'[Len(spawned')] = "dumpsys cpuinfo") =>
          (pc = "dumpsys cpuinfo" /\ "dumpsys cpuinfo" \notin Range(spawned))

\* C22: the CPU percent is that of top -p <pid> whenever top succeeded and
\* printed a row for the pid with a percent that parses; dumpsys cpuinfo is
\* run exactly when top failed or gave nothing that parses, and then its
\* value or failure is the result of the measurement.
C22_TopThenCpuinfo == [][C22_TopStep /\ C22_CpuinfoStep /\ C22_CpuinfoOnlyAfterTop]_vars

\* C22, the case reached: top gave no percent for the pid, dumpsys cpuinfo was
\* run and gave 10
C22_Witness ==
    /\ pc = "cat stat"
    /\ lastRun.proc = "dumpsys cpuinfo"
    /\ lastRun.out = <<LineLoad, LineCpuinfoRow>>
    /\ "top" \in Range(spawned)
    /\ loc.percentErr = NoErr
    /\ loc.cpuPercent = Num(10)

-----------------------------------------------------------------------------
(* C23: one process at a time, in a fixed order                              *)

\* the order in which the claim lists the probes
ProbeOrder ==
    <<"am start", "getprop model", "getprop release", "wm size", "dumpsys meminfo",
      "pidof", "ps", "top", "dumpsys cpuinfo", "cat stat",
      "simctl list", "simctl launch", "memory_usage", "launchctl list", "simctl ps">>

ProbeRank(p) == CHOOSE i \in DOMAIN ProbeOrder : ProbeOrder[i] = p

\* a process is started when none is running, and it is the probe Run is at
C23_StartsWhenIdle ==
    spawned' # spawned =>
        /\ proc = NoProc
        /\ spawned' = Append(spawned, pc)
        /\ proc' = pc

\* the probes started so far, in the order of the list, none twice
C23_InOrder ==
    \A i \in 1..(Len(spawned) - 1) : ProbeRank(spawned[i]) < ProbeRank(spawned[i + 1])

\* a probe that comes before the last one started has ended
C23_OneRunning == proc # NoProc => proc = spawned[Len(spawned)]

\* C23: within one command at most one external process runs at any time and
\* the probes are started in a fixed order, each after the previous one has
\* ended: on Android launch, model, OS version, resolution, memory, pid
\* lookup, CPU percent, CPU time; on iOS simulator listing, launch, memory,
\* pid lookup, ps.
C23_SequentialProbes == [](C23_InOrder /\ C23_OneRunning) /\ [][C23_StartsWhenIdle]_vars

\* C23, the case reached: the all command has started every probe of both
\* platforms, the fallbacks of the Android CPU step included
C23_Witness ==
    /\ cmd = "all"
    /\ spawned = ProbeOrder
    /\ proc = "simctl ps"

-----------------------------------------------------------------------------
(* C24: the one deadline of a command                                        *)

\* the deadline is that of --timeout, and it stays passed once it has passed
C24_OneDeadline ==
    /\ expired => commandContext(opts.timeout).deadline
    /\ lastRun.cause \in DeadlineCauses => expired

\* once the deadline has passed no process is started, and a probe that is
\* reached then fails at once with the error of the context
C24_AfterExpiry ==
    expired =>
        /\ expired'
        /\ spawned' = spawned
        /\ (pc \in Probes /\ proc = NoProc /\ pc' # pc) =>
              /\ lastRun'.proc = pc
              /\ lastRun'.cause = "deadline"
              /\ lastRun'.err = ErrDeadline

\* C24: one deadline, made once per command from --timeout, is shared by all
\* the external processes of the command, those of both platforms of `all`
\* included; no probe has a deadline of its own, and once the deadline has
\* passed every probe started afterwards fails immediately.
C24_SharedDeadline == [](C24_OneDeadline) /\ [][C24_AfterExpiry]_vars

\* C24, the case reached: in the all command the deadline passed during the
\* Android run, and the first iOS probe failed on it without being started
C24_Witness ==
    /\ cmd = "all"
    /\ expired
    /\ "am start" \in Range(spawned)
    /\ "simctl list" \notin Range(spawned)
    /\ lastRun.proc = "simctl list"
    /\ lastRun.cause = "deadline"

-----------------------------------------------------------------------------
(* C25: the device record                                                    *)

\* what a reader takes from the output of each identity probe
StatedIdentity(out) ==
    CASE out = <<LinePixelMock>>    -> LinePixelMock
      [] out = <<Line14>>           -> Line14
      [] out = <<LinePhysicalSize>> -> LinePhysicalSize
      [] OTHER                      -> <<>>

\* the field an identity probe fills when it succeeded, empty when it failed
Probed == IF lastRun'.err = NoErr THEN StatedIdentity(lastRun'.out) ELSE <<>>

HoldsNothing(d) ==
    d.ID = "" /\ d.Model = <<>> /\ d.OSVersion = <<>> /\ d.Resolution = <<>>

\* each identity probe fills its own field, leaves the others as they are and
\* hands on to the next probe whether it failed or not
C25_IdentityProbes ==
    /\ Returned("getprop model") =>
          /\ pc' = "getprop release"
          /\ loc'.meta = [loc.meta EXCEPT !.Model = Probed]
    /\ Returned("getprop release") =>
          /\ pc' = "wm size"
          /\ loc'.meta = [loc.meta EXCEPT !.OSVersion = Probed]
    /\ Returned("wm size") =>
          /\ pc' = "dumpsys meminfo"
          /\ loc'.meta = [loc.meta EXCEPT !.Resolution = Probed]
          /\ loc'.am.Device.nil <=> HoldsNothing(loc'.meta)
          /\ ~loc'.am.Device.nil => loc'.am.Device = loc'.meta

\* a device record that is there holds something
C25_NoHollowDevice(m) ==
    (~m.nil /\ ~m.Device.nil) =>
        /\ ~HoldsNothing(m.Device)
        /\ m.Device.Platform # ""

C25_Records ==
    /\ C25_NoHollowDevice(aRet.metrics)
    /\ C25_NoHollowDevice(iRet.metrics)
    /\ C25_NoHollowDevice(printed.Android)
    /\ C25_NoHollowDevice(printed.IOS)
    /\ C25_NoHollowDevice(saved.Android)
    /\ C25_NoHollowDevice(saved.IOS)
    /\ (~aRet.metrics.nil /\ opts.aDevice # "") => ~aRet.metrics.Device.nil
    /\ ~iRet.metrics.nil => ~iRet.metrics.Device.nil

\* C25: the device record of a run is absent exactly when the device id and
\* the model, OS version and resolution that were probed are all empty; no
\* metrics record carries a device record whose fields are all empty; any of
\* the three Android identity probes may fail and the fields of the others
\* are filled all the same.
C25_DeviceAbsentIffEmpty == [](C25_Records) /\ [][C25_IdentityProbes]_vars

\* C25, the case reached: no device id, the model probe printed nothing, the
\* OS version probe failed, the resolution probe succeeded, and the record
\* holds the resolution alone
C25_Witness ==
    /\ pc = "a_return"
    /\ opts.aDevice = ""
    /\ aRet.err = NoErr
    /\ ~aRet.metrics.Device.nil
    /\ aRet.metrics.Device.Model = <<>>
    /\ aRet.metrics.Device.OSVersion = <<>>
    /\ aRet.metrics.Device.Resolution = LinePhysicalSize

-----------------------------------------------------------------------------
(* C26: measured as zero, or not measured                                    *)

\* the measurements of the Android run that has just returned its record
MeasuredA == pc = "a_return" /\ aRet.err = NoErr

\* C26: in a metrics record a numeric field that was measured, with whatever
\* value, differs from the same field of a record in which it was not
\* measured (memory, CPU percent and CPU time of the Android run).
C26_MeasuredZeroIsDistinct ==
    /\ (MeasuredA /\ loc.memErr = NoErr) =>
          aRet.metrics.MemoryMB # ZeroAndroidMetrics.MemoryMB
    /\ (MeasuredA /\ loc.pid # <<>> /\ loc.percentErr = NoErr) =>
          aRet.metrics.CPUPercent # ZeroAndroidMetrics.CPUPercent
    /\ (MeasuredA /\ loc.pid # <<>> /\ loc.timeErr = NoErr) =>
          aRet.metrics.CPUTimeMs # ZeroAndroidMetrics.CPUTimeMs

-----------------------------------------------------------------------------
(* C27: the iOS ps parser                                                    *)

\* the rows of pid 4242 with the three columns, and the two of them whose
\* percent is a number and whose time is well formed
FullPidRows == {LineIOSPSRow, LineIOSPSRowDays, LineIOSPSRowBadCPU, LineIOSPSRowBadTime}

StatedPSRow(line) ==
    CASE line = LineIOSPSRow     -> [percent |-> Frac(3, 2), ms |-> Num(1500), err |-> NoErr]
      [] line = LineIOSPSRowDays ->
            [percent |-> Num(12), ms |-> Num(((1 * 24 + 2) * 3600 + 3 * 60 + 4) * 1000),
             err |-> NoErr]
      [] OTHER                   -> [percent |-> Num(0), ms |-> Num(0), err |-> NoErr]

\* the lines after the header, the header being the first line that is not blank
AfterHeader(lines) ==
    IF \E i \in DOMAIN lines : lines[i] # <<>>
    THEN Drop(lines, FirstIndexIn(lines, IOSPSLines \ {<<>>}))
    ELSE <<>>

HeaderFirst(lines) ==
    /\ \E i \in DOMAIN lines : lines[i] # <<>>
    /\ lines[FirstIndexIn(lines, IOSPSLines \ {<<>>})] = LineIOSPSHeader

-----------------------------------------------------------------------------
(* C28, C29: what the commands print and save                                *)

\* a Result with a platform in it, each platform being what its Run returned
\* with no error
C28_Meaningful(r) ==
    ~r.nil =>
        /\ ~r.Android.nil \/ ~r.IOS.nil
        /\ ~r.Android.nil =>
              (aRet.returned /\ aRet.err = NoErr /\ r.Android = aRet.metrics)
        /\ ~r.IOS.nil =>
              (iRet.returned /\ iRet.err = NoErr /\ r.IOS = iRet.metrics)

NothingConfigured == opts.package = <<>> /\ opts.activity = <<>> /\ opts.bundle = <<>>

\* C28: every Result a command prints as a summary or writes as a report has
\* Android or iOS present, and each present record is the one a Run returned
\* with no error; the all command with neither platform configured returns
\* an error and neither prints nor writes.
C28_ReportHasAPlatform ==
    /\ C28_Meaningful(printed)
    /\ C28_Meaningful(saved)
    /\ (cmd = "all" /\ NothingConfigured) =>
          /\ printed = NoResult
          /\ saved = NoResult
          /\ spawned = <<>>
          /\ pc = "done" => cmdErr # NoErr

\* C28, the case reached: the all command with the bundle id alone has saved
\* a report with the iOS record and no Android record
C28_Witness ==
    /\ cmd = "all"
    /\ pc = "done"
    /\ cmdErr = NoErr
    /\ ~saved.nil
    /\ saved.Android.nil
    /\ ~saved.IOS.nil

\* where the command is while ios.Run is being executed
InIOSRun == pc \in IOSProbes \cup {"i_enter", "i_return"}

IOSBegun == InIOSRun \/ iRet.returned \/ \E i \in DOMAIN spawned : spawned[i] \in IOSProbes

AndroidConfigured == opts.package # <<>> \/ opts.activity # <<>>

\* C29: in the all command the Android run is over before the iOS run
\* begins; when the Android run returned an error the iOS run is never begun,
\* and when the iOS run returned an error the Android metrics collected
\* before are neither printed nor saved.
C29_FirstFailureAborts ==
    cmd = "all" =>
        /\ (IOSBegun /\ AndroidConfigured) =>
              (aRet.returned /\ aRet.err = NoErr /\ pc \notin AndroidProbes
                 /\ proc \notin AndroidProbes)
        /\ (aRet.returned /\ aRet.err # NoErr) =>
              (~IOSBegun /\ printed = NoResult /\ saved = NoResult)
        /\ (iRet.returned /\ iRet.err # NoErr) =>
              (printed = NoResult /\ saved = NoResult)

\* C29, the case reached: the Android run returned its metrics, the iOS run
\* failed, and the command ended with the error and nothing printed or saved
C29_Witness ==
    /\ cmd = "all"
    /\ pc = "done"
    /\ aRet.returned /\ aRet.err = NoErr /\ ~aRet.metrics.nil
    /\ iRet.returned /\ iRet.err # NoErr
    /\ cmdErr = iRet.err
    /\ printed = NoResult
    /\ saved = NoResult

-----------------------------------------------------------------------------
(* C30: the iOS CPU figures, both or neither                                 *)

StatedLaunchctlPid(out) ==
    IF out = <<LineLaunchctlHeader, LineLaunchctlIdle, LineLaunchctlRow>> THEN Line4242
    ELSE <<>>

NeitherCPUFigure(m) == m.CPUPercent = Num(0) /\ m.CPUTimeMs = Num(0)

\* the pid lookup returned: without a pid the run ends with neither figure
C30_LaunchctlStep ==
    Returned("launchctl list") =>
        IF lastRun'.err = NoErr /\ StatedLaunchctlPid(lastRun'.out) # <<>>
        THEN pc' = "simctl ps" /\ loc'.pid = StatedLaunchctlPid(lastRun'.out)
        ELSE pc' = "i_return" /\ iRet'.err = NoErr /\ NeitherCPUFigure(iRet'.metrics)

\* ps returned: both figures of the row, or neither when ps failed, printed
\* no row for the pid or a row with a column that does not parse
C30_PSStep ==
    Returned("simctl ps") =>
        /\ pc' = "i_return"
        /\ iRet'.err = NoErr
        /\ IF lastRun'.err = NoErr /\ lastRun'.out = <<LineIOSPSHeader, LineIOSPSRow>>
           THEN /\ iRet'.metrics.CPUPercent = Frac(3, 2)
                /\ iRet'.metrics.CPUTimeMs = Num(1500)
           ELSE NeitherCPUFigure(iRet'.metrics)

\* C30: on iOS CPU percent and CPU time are collected together or not at
\* all: when the pid lookup fails, the ps probe fails, or the percent or the
\* time column of the row does not parse, the metrics record has neither
\* CPUPercent nor CPUTimeMs.
C30_BothOrNeither == [][C30_LaunchctlStep /\ C30_PSStep]_vars

\* C30, the case reached: the row of the pid has a good percent and a time
\* that does not parse, and the record returned has neither figure
C30_Witness ==
    /\ pc = "i_return"
    /\ lastRun.proc = "simctl ps"
    /\ lastRun.err = NoErr
    /\ lastRun.out = <<LineIOSPSHeader, LineIOSPSRowBadTime>>
    /\ iRet.err = NoErr
    /\ ~iRet.metrics.nil
    /\ NeitherCPUFigure(iRet.metrics)

====
